---- MODULE Spec2Model ----
(***************************************************************************)
(* A state-machine model of the ephemeris core of ctara-dhruv-core:        *)
(*   - the SPK kernel layer (segment selection, chain resolution),         *)
(*   - the DAF summary walk,                                               *)
(*   - the leap-second lookup and the UTC <-> TAI iteration,               *)
(*   - the zero-crossing search primitive and the entry points built on    *)
(*     the conjunction search.                                             *)
(* Each subsystem has its own specification over the shared variables;     *)
(* the variables of the other subsystems are held at their initial value.  *)
(* Floating-point times and angles are modelled by integers on a grid that *)
(* the operations keep closed (see the remarks at each subsystem).         *)
(***************************************************************************)
EXTENDS Integers, Sequences, FiniteSets, TLC

VARIABLES
    \* ---- jpl_kernel: SpkKernel ----
    segments,   \* SpkKernel.segments: the ordered segment list, fixed after load
    k_pc,       \* "idle" | "walk" (inside resolve_to_ssb's loop) | "done"
    k_op,       \* the call in progress: name and arguments
    code,       \* resolve_to_ssb: the local `code`
    k_last,     \* what the last loop iteration did (fallback hop / evaluation)
    k_iter,     \* resolve_to_ssb: loop iterations taken so far, modulo 2
    k_result,   \* the Result returned by the call
    \* ---- jpl_kernel::daf: loading a file ----
    file,            \* the input byte buffer, by record
    overflow_checks, \* whether the build traps on integer overflow (debug) or wraps
    d_pc,            \* "start" | "walk" (inside read_summaries' loop) | "done"
    record_num,      \* read_summaries: the local `record_num` (usize)
    n_summaries,     \* read_summaries: summaries.len(), counted up to MaxSummaries
    d_iter,          \* read_summaries: loop iterations taken so far, modulo 2
    d_result,        \* the Result returned by SpkKernel::from_bytes
    \* ---- eph_time::scales ----
    leap_seconds,    \* LskData.leap_seconds: (delta_at, utc epoch), sorted by epoch
    t_op,            \* the conversion called and its argument
    t_result,        \* what it returned
    \* ---- dhruv_search: zero-crossing search and its entry points ----
    s_entry,    \* the public function called
    s_stage,    \* masa_for_date: 1 = prev_amavasya running, 2 = next_amavasya running
    s_pc,       \* "idle" | "scan" | "bisect" | "ret" (primitive returned) | "done"
    s_cfg,      \* the search parameters in force
    s_k,        \* coarse scan: completed iterations of `for _ in 0..max_steps`
    t_prev,     \* coarse scan: t_prev
    f_prev,     \* coarse scan: f_prev
    t_a,        \* bisection: t_a
    t_b,        \* bisection: t_b
    f_a,        \* bisection: f_a
    s_it,       \* bisection: completed iterations of `for _ in 0..max_iterations`
    s_samples,  \* find_zero_crossing: the evaluations the coarse scan has made, in
                \* order, and after them the evaluation that failed, if one did
    s_evals,    \* evaluations made since the entry point was called (masa_for_date:
                \* since the search it is running was started)
    s_f0,       \* the value of the searched function at the start time, once known
    s_prim,     \* what the search primitive returned to the entry point
    s_result,   \* what the entry point returned to its caller
    events,     \* search_conjunctions: the Vec of events collected so far
    f_b,        \* bisect_refinement: its argument _f_b, the value at the bracket's end
    \* ---- dhruv_rs::global: the process-wide engine ----
    ENGINE,     \* the OnceLock: empty, or the engine it holds
    init_calls, \* per thread, its call of init: position, argument, locals, result
    engine_calls, \* per thread, its last call of engine(): what it returned, and
                \* the engines that inits had installed when it was made
    installed,  \* the engines of the init calls that returned Ok, in order
    \* ---- eph_ffi_c: the exported C functions and their caller's memory ----
    live,       \* the engine handles allocated by Box::new and not yet dropped
    engine_ptr, \* the caller's handle variable, whose address it passes as out_engine
    out_state_mem, \* the caller's EphStateVector buffer, passed as out_state
    f_call,     \* the last exported function called: arguments, status, accesses
    f_ub,       \* whether a call has had undefined behaviour (invalid pointer use)
    \* ---- the engine's state cache ----
    cache,      \* the cached entries (key, value) in eviction order, oldest first
    e_capacity, \* EngineConfig.cache_capacity
    e_policy,   \* whether a hit refreshes the entry's place in the eviction order
    e_calls,    \* per thread, its call of query: position, key, locals, result
    e_failed,   \* the keys for which a query has returned an error
    e_insert,   \* what the last insertion did: overflow, oldest entry, entries gone
    \* ---- dhruv_vedic_base::dasha::query ----
    p_level,    \* find_active_period: the argument level
    p_query,    \* find_active_period: the argument query_jd
    p_result    \* what it returned

kvars == <<segments, k_pc, k_op, code, k_last, k_iter, k_result>>

dvars == <<file, overflow_checks, d_pc, record_num, n_summaries, d_iter, d_result>>

tvars == <<leap_seconds, t_op, t_result>>

svars == <<s_entry, s_stage, s_pc, s_cfg, s_k, t_prev, f_prev, t_a, t_b, f_a, s_it,
           s_samples, s_evals, s_f0, s_prim, s_result, events, f_b>>

gvars == <<ENGINE, init_calls, engine_calls, installed>>

fvars == <<live, engine_ptr, out_state_mem, f_call, f_ub>>

evars == <<cache, e_capacity, e_policy, e_calls, e_failed, e_insert>>

pvars == <<p_level, p_query, p_result>>

xvars == <<fvars, evars, pvars>>

vars == <<kvars, dvars, tvars, svars, gvars, xvars>>

(***************************************************************************)
(* Rust integer arithmetic on i32: `/` truncates toward zero and `%` takes *)
(* the sign of the dividend.                                               *)
(***************************************************************************)
RustDiv(a, n) == IF a >= 0 THEN a \div n ELSE -((-a) \div n)

RustRem(a, n) == IF a >= 0 THEN a % n ELSE -((-a) % n)

(***************************************************************************)
(* jpl_kernel                                                              *)
(***************************************************************************)

\* Bound: the longest segment list a modelled kernel holds.
MaxSegs == 2

\* NAIF codes that appear as segment targets / centres in the modelled kernels.
SegTargets == {3, 4, 399}

SegCenters == {0, 3}

\* Closed epoch ranges [start, end] of the modelled segments; they overlap at 1.
SegRanges == {<<0, 1>>, <<1, 2>>}

\* SPK data types of the modelled segments: 2 (Chebyshev) and one other.
SegTypes == {2, 3}

\* Query epochs: 1 lies in both ranges, 2 only in the second.
Epochs == {1, 2}

\* Bodies handed to resolve_to_ssb.
Bodies == {0, 3, 399, 499, 1099}

SegPool ==
    [target : SegTargets, center : SegCenters, start_epoch : {0, 1},
     end_epoch : {1, 2}, data_type : SegTypes]

Segment == {s \in SegPool : <<s.start_epoch, s.end_epoch>> \in SegRanges}

Kernels == UNION {[1..n -> Segment] : n \in 0..MaxSegs}

NoResult == [kind |-> "none"]

NoStep == [kind |-> "none"]

\* planet_body_to_barycenter: x99 -> x, otherwise the code unchanged.
planet_body_to_barycenter(c) ==
    IF c >= 100 /\ RustRem(c, 100) = 99 THEN RustDiv(c, 100) ELSE c

\* The predicate of find_segment's closure.
SegMatches(seg, target, center, epoch) ==
    /\ seg.target = target
    /\ seg.center = center
    /\ epoch >= seg.start_epoch
    /\ epoch <= seg.end_epoch

\* Iterator::find over the indices S that satisfy the closure: the least of
\* them, 0 when there is none.
FirstIndex(S) ==
    IF S = {} THEN 0 ELSE CHOOSE i \in S : \A j \in S : i <= j

\* A find_segment that keeps the last match instead of the first.
find_segment_last(target, center, epoch) ==
    LET M == {i \in 1..Len(segments) : SegMatches(segments[i], target, center, epoch)}
    IN  IF M = {} THEN 0 ELSE CHOOSE i \in M : \A j \in M : j <= i

\* find_segment: index of the selected segment, or 0 (-> EpochOutOfRange).
find_segment(target, center, epoch) ==
    FirstIndex({i \in 1..Len(segments) : SegMatches(segments[i], target, center, epoch)})

\* center_for: Some(center of the first segment with that target), or None.
center_for(target) ==
    LET i0 == FirstIndex({i \in 1..Len(segments) : segments[i].target = target})
    IN  IF i0 = 0 THEN [some |-> FALSE] ELSE [some |-> TRUE, center |-> segments[i0].center]

\* evaluate: find_segment, then dispatch on the data type.  The Type-2 record
\* data of every modelled segment is well formed, so evaluate_type2 succeeds.
evaluate(target, center, epoch) ==
    LET i == find_segment(target, center, epoch)
    IN  IF i = 0
        THEN [kind |-> "EpochOutOfRange", target |-> target, center |-> center]
        ELSE IF segments[i].data_type = 2
             THEN [kind |-> "ok", seg |-> i]
             ELSE [kind |-> "UnsupportedDataType", seg |-> i]

(***************************************************************************)
(* jpl_kernel::daf                                                         *)
(*                                                                         *)
(* The input buffer is modelled record by record: file.recs[r] holds the   *)
(* two doubles that read_summaries reads from record r (NEXT at byte 0 and *)
(* NSUM at byte 16), for every complete 1024-byte record of the buffer,    *)
(* record 1 (the file record) included; file.hdr holds the fields that     *)
(* parse_file_record reads from record 1.  A usize is modelled by an       *)
(* integer v, where v < 0 stands for 2^64 + v.                             *)
(***************************************************************************)

\* Bound: the number of complete records of a modelled buffer.
MaxRecs == 2

\* Bound: summaries.len() is counted up to this value and not beyond.
MaxSummaries == 3

RECORD_BYTES == 1024

F64(n) == [k |-> "num", v |-> n]

\* A double too large for any integer type.
HugeF64 == [k |-> "huge"]

\* usize::MAX in the modelled representation.
UsizeMax == 0 - 1

\* A NaN, and a double below every integer type.
NaNF64 == [k |-> "nan"]

NegHugeF64 == [k |-> "neghuge"]

\* `x as usize` for an f64 x: saturating, truncating, NaN to 0.
F64AsUsize(x) ==
    IF x.k = "huge" THEN UsizeMax
    ELSE IF x.k \in {"nan", "neghuge"} THEN 0
    ELSE IF x.v < 0 THEN 0 ELSE x.v

\* `x as usize` for an i32 x: sign-extending, so a negative x wraps to 2^64 + x.
I32AsUsize(x) == x

NextVals == {F64(n) : n \in (0 - 1)..(MaxRecs + 1)} \cup {HugeF64}

NsumVals == {F64(0), F64(1), F64(26)}

FwardVals == (0 - 1)..(MaxRecs + 1)

GoodHeaders ==
    {[locfmt |-> "LTL-IEEE", id_ok |-> TRUE, nd |-> 2, ni |-> 6, fward |-> f] :
        f \in FwardVals}

BadHeaders ==
    {[locfmt |-> "BIG-IEEE", id_ok |-> TRUE, nd |-> 2, ni |-> 6, fward |-> 2],
     [locfmt |-> "UNKNOWN!", id_ok |-> TRUE, nd |-> 2, ni |-> 6, fward |-> 2],
     [locfmt |-> "LTL-IEEE", id_ok |-> FALSE, nd |-> 2, ni |-> 6, fward |-> 2],
     [locfmt |-> "LTL-IEEE", id_ok |-> TRUE, nd |-> 2, ni |-> 5, fward |-> 2]}

Files ==
    [hdr : GoodHeaders \cup BadHeaders,
     recs : UNION {[1..n -> [next : NextVals, nsum : NsumVals]] : n \in 0..MaxRecs}]

\* summary_size: ND + ceil(NI / 2) doubles.
summary_size(nd, ni) == nd + ((ni + 1) \div 2)

\* parse_file_record: the error it returns, or "ok".
parse_file_record(f) ==
    IF Len(f.recs) < 1 THEN "FileTooSmall"
    ELSE IF f.hdr.locfmt \notin {"LTL-IEEE", "BIG-IEEE"} THEN "BadEndianness"
    ELSE IF ~f.hdr.id_ok THEN "BadFileId"
    ELSE "ok"

DIdle ==
    /\ d_pc = "start"
    /\ record_num = 0
    /\ n_summaries = 0
    /\ d_iter = 0
    /\ d_result = NoResult

\* SpkKernel::from_bytes up to the entry of read_summaries' loop:
\* parse_file_record, the ND/NI check, `record_num = fward as usize`.
FromBytesStart ==
    /\ d_pc = "start"
    /\ LET e == parse_file_record(file)
       IN  IF e # "ok"
           THEN /\ d_result' = [kind |-> e]
                /\ d_pc' = "done"
                /\ UNCHANGED record_num
           ELSE IF file.hdr.nd # 2 \/ file.hdr.ni # 6
                THEN /\ d_result' = [kind |-> "BadFileId"]
                     /\ d_pc' = "done"
                     /\ UNCHANGED record_num
                ELSE /\ record_num' = I32AsUsize(file.hdr.fward)
                     /\ d_pc' = "walk"
                     /\ UNCHANGED d_result
    /\ UNCHANGED <<file, overflow_checks, n_summaries, d_iter, kvars, tvars, svars, gvars, xvars>>

\* read_summaries: the loop test and one iteration of `while record_num != 0`,
\* the inner loop over the record's summaries included; on leaving the loop,
\* from_bytes builds one segment per summary and returns the kernel.
WalkStep ==
    /\ d_pc = "walk"
    /\ d_iter' = 1 - d_iter
    /\ IF record_num = 0
       THEN /\ d_result' = [kind |-> "ok", n |-> n_summaries]
            /\ d_pc' = "done"
            /\ UNCHANGED <<record_num, n_summaries>>
       ELSE IF record_num < 0
       THEN \* (record_num - 1) * RECORD_BYTES exceeds 2^64: a build with overflow
            \* checks panics; otherwise the product wraps to an offset past the end.
            /\ d_result' = [kind |-> IF overflow_checks THEN "panic" ELSE "BadSummaryRecord"]
            /\ d_pc' = "done"
            /\ UNCHANGED <<record_num, n_summaries>>
       ELSE IF (record_num - 1) * RECORD_BYTES + RECORD_BYTES > Len(file.recs) * RECORD_BYTES
       THEN /\ d_result' = [kind |-> "BadSummaryRecord"]
            /\ d_pc' = "done"
            /\ UNCHANGED <<record_num, n_summaries>>
       ELSE LET rec == file.recs[record_num]
                nsum == F64AsUsize(rec.nsum)
                ss == summary_size(file.hdr.nd, file.hdr.ni)
                \* the first i with 24 + i*ss*8 + ss*8 > RECORD_BYTES
                fit == (RECORD_BYTES - 24) \div (ss * 8)
            IN  IF nsum < 0 \/ nsum > fit
                THEN /\ d_result' = [kind |-> "BadSummaryRecord"]
                     /\ d_pc' = "done"
                     /\ UNCHANGED <<record_num, n_summaries>>
                ELSE /\ n_summaries' =
                            IF n_summaries + nsum > MaxSummaries
                            THEN MaxSummaries ELSE n_summaries + nsum
                     /\ record_num' = F64AsUsize(rec.next)
                     /\ UNCHANGED <<d_pc, d_result>>
    /\ UNCHANGED <<file, overflow_checks, kvars, tvars, svars, gvars, xvars>>

(***************************************************************************)
(* eph_time::scales                                                        *)
(*                                                                         *)
(* Times are whole seconds.  The analytic steps tdb_to_tt and tt_to_tai of *)
(* tdb_to_utc are not modelled: the TAI instant they produce is the input. *)
(***************************************************************************)

\* Bound: the longest leap-second table.
MaxLeaps == 2

\* Bound: the largest delta_at of a table entry.
MaxDelta == 3

\* Bound: the latest anchor epoch of a table entry.
MaxAnchor == 6

\* Tables as parse_lsk leaves them: sorted by anchor epoch (here strictly).
LeapTables ==
    {t \in UNION {[1..n -> (1..MaxDelta) \X (0..MaxAnchor)] : n \in 0..MaxLeaps} :
        \A i \in 1..(Len(t) - 1) : t[i][2] < t[i + 1][2]}

Instants == (0 - 2)..(MaxAnchor + MaxDelta + 1)

\* slice::binary_search_by on the anchor epochs: Ok(i) when an entry has that
\* epoch, else Err(i) with i the number of entries before the insertion point.
\* Indices are 0-based as in the code.
binary_search(table, utc) ==
    IF \E i \in 1..Len(table) : table[i][2] = utc
    THEN [ok |-> TRUE, i |-> (CHOOSE i \in 1..Len(table) : table[i][2] = utc) - 1]
    ELSE [ok |-> FALSE, i |-> Cardinality({i \in 1..Len(table) : table[i][2] < utc})]

lookup_delta_at(utc, table) ==
    IF Len(table) = 0 THEN 0
    ELSE LET r == binary_search(table, utc)
         IN  IF r.ok THEN table[r.i + 1][1]
             ELSE IF r.i = 0 THEN 0
             ELSE table[r.i][1]

utc_to_tai(utc, table) == utc + lookup_delta_at(utc, table)

\* One pass of the loop body of tdb_to_utc.
UtcIteration(utc, tai, table) == tai - lookup_delta_at(utc, table)

\* A tdb_to_utc whose loop runs once.
tdb_to_utc_once(tai, table) == UtcIteration(tai, tai, table)

\* tdb_to_utc from the TAI instant on: `utc = tai`, then three iterations.
tdb_to_utc(tai, table) ==
    LET u1 == UtcIteration(tai, tai, table)
        u2 == UtcIteration(u1, tai, table)
        u3 == UtcIteration(u2, tai, table)
    IN  u3

TIdle ==
    /\ t_op = [name |-> "none"]
    /\ t_result = NoResult

\* A caller converts a UTC instant; utc_to_tai returns a plain f64.
UtcToTai(utc) ==
    /\ t_op.name = "none"
    /\ t_op' = [name |-> "utc_to_tai", arg |-> utc]
    /\ t_result' = [kind |-> "ok", val |-> utc_to_tai(utc, leap_seconds)]
    /\ UNCHANGED <<leap_seconds, kvars, dvars, svars, gvars, xvars>>

\* A caller converts back; tdb_to_utc returns a plain f64.
TdbToUtc(tai) ==
    /\ t_op.name = "none"
    /\ t_op' = [name |-> "tdb_to_utc", arg |-> tai]
    /\ t_result' = [kind |-> "ok", val |-> tdb_to_utc(tai, leap_seconds)]
    /\ UNCHANGED <<leap_seconds, kvars, dvars, svars, gvars, xvars>>

(***************************************************************************)
(* dhruv_search::search_util                                               *)
(*                                                                         *)
(* Times are integers on a grid on which the coarse step is 2^(MaxIter+1)  *)
(* units, so that every bisection midpoint 0.5 * (t_a + t_b) of a call     *)
(* with max_iterations <= MaxIter is again on the grid.  Angles are whole  *)
(* degrees.  The searched function is evaluated lazily: each evaluation    *)
(* draws its outcome (a value or a failure); no time is evaluated twice.   *)
(***************************************************************************)

\* Bound: the largest max_steps of a modelled find_zero_crossing call.
MaxSteps == 2

\* Bound: the largest max_iterations of a modelled call.
MaxIter == 2

RECURSIVE Pow2(_)

Pow2(n) == IF n = 0 THEN 1 ELSE 2 * Pow2(n - 1)

\* The coarse step, in grid units.
StepUnits == Pow2(MaxIter + 1)

\* Convergence thresholds, in grid units: one that no bracket reaches and one
\* that the bracket reaches after halving to 4 units.
ConvVals == {1, 5}

\* Values of the searched function (degrees in (-180, 180]).
FVals == {0 - 170, 0 - 1, 0, 1, 170}

\* The errors an evaluation can fail with.
EvalErrors == {"EpochOutOfRange", "SegmentNotFound"}

\* Outcomes of one evaluation `f(t)?`.
EvalOutcomes ==
    {[ok |-> TRUE, v |-> x] : x \in FVals} \cup {[ok |-> FALSE, err |-> e] : e \in EvalErrors}

Abs(x) == IF x < 0 THEN 0 - x ELSE x

\* An is_genuine_crossing without the wrap-around guard.
is_genuine_crossing_nowrap(fa, fb) == fa * fb < 0

is_genuine_crossing(fa, fb) == fa * fb < 0 /\ Abs(fa - fb) < 270

\* A `for _ in 0..n` loop that runs one pass too many.
InRangeInclusive(i, n) == i <= n

\* `for _ in 0..n`: the loop takes another pass after i completed ones iff i < n.
InRange(i, n) == i < n

\* Arguments handed to is_genuine_crossing directly: every tenth degree of
\* [-180, 180] and values next to zero and to the 270-degree threshold.
CrossingArgs == {10 * x : x \in (0 - 18)..18} \cup {0 - 135, 0 - 1, 1, 135}

\* 0.5 * (a + b), exact on the grid.
Mid(a, b) == (a + b) \div 2

FzcCfgs ==
    [jd_start : {0}, step : {StepUnits, 0 - StepUnits}, max_steps : 0..MaxSteps,
     max_iterations : 0..MaxIter, convergence_days : ConvVals]

SIdle ==
    /\ s_entry = "none"
    /\ s_stage = 0
    /\ s_pc = "idle"
    /\ s_cfg = [jd_start |-> 0]
    /\ s_k = 0
    /\ t_prev = 0
    /\ f_prev = 0
    /\ t_a = 0
    /\ t_b = 0
    /\ f_a = 0
    /\ s_it = 0
    /\ s_samples = <<>>
    /\ s_evals = 0
    /\ s_f0 = [known |-> FALSE]
    /\ s_prim = NoResult
    /\ s_result = NoResult
    /\ events = <<>>
    /\ f_b = 0

\* A caller (the scan loops, the unit tests) applies is_genuine_crossing.
IsGenuineCrossing(a, b) ==
    /\ s_pc = "idle"
    /\ s_entry' = "is_genuine_crossing"
    /\ s_cfg' = [f_a |-> a, f_b |-> b]
    /\ s_result' = [kind |-> "Bool", val |-> is_genuine_crossing(a, b)]
    /\ s_pc' = "done"
    /\ UNCHANGED <<s_stage, s_k, t_prev, f_prev, t_a, t_b, f_a, s_it, s_samples, s_evals,
                   s_f0, s_prim, events, f_b, kvars, dvars, tvars, gvars, xvars>>

\* The entry points that run find_zero_crossing: the function itself and the
\* sankranti searches built on it.
FzcEntries ==
    {"find_zero_crossing", "next_specific_sankranti", "prev_specific_sankranti",
     "search_sankrantis"}

\* A `?` that drops the failure and reports that nothing was found.
ErrorToNone(r) == [kind |-> "None"]

\* `f(t)?` on a failed evaluation: the function returns the error it was given
\* (an engine error arrives as SearchError::Engine through From<EngineError>).
Propagate(r) == [kind |-> "Err", err |-> "Engine", cause |-> r.err]

\* The record kept of one evaluation of the searched function.
Sample(t, r) ==
    IF r.ok THEN [t |-> t, ok |-> TRUE, v |-> r.v] ELSE [t |-> t, ok |-> FALSE, err |-> r.err]

\* find_zero_crossing returns `found`: to its caller when it was called
\* directly, to the sankranti function around it otherwise.
FzcReturn(found) ==
    IF s_entry' = "find_zero_crossing"
    THEN s_result' = found /\ s_pc' = "done" /\ UNCHANGED s_prim
    ELSE s_prim' = found /\ s_pc' = "ret" /\ UNCHANGED s_result

\* find_zero_crossing: entry, `let mut f_prev = f(jd_start)?`.
FzcEnter(cfg, r) ==
    /\ s_cfg' = cfg
    /\ s_evals' = 1
    /\ s_samples' = <<Sample(cfg.jd_start, r)>>
    /\ s_k' = 0 /\ t_a' = 0 /\ t_b' = 0 /\ f_a' = 0 /\ s_it' = 0
    /\ IF ~r.ok
       THEN /\ FzcReturn(Propagate(r))
            /\ t_prev' = 0 /\ f_prev' = 0
       ELSE /\ f_prev' = r.v
            /\ t_prev' = cfg.jd_start
            /\ s_pc' = "scan"
            /\ s_prim' = NoResult
            /\ UNCHANGED s_result

\* A caller inside the crate invokes find_zero_crossing.
FzcStart(cfg, r) ==
    /\ s_pc = "idle"
    /\ s_entry' = "find_zero_crossing"
    /\ FzcEnter(cfg, r)
    /\ UNCHANGED <<s_stage, s_f0, events, f_b, kvars, dvars, tvars, gvars, xvars>>

\* find_zero_crossing: the scan loop has run max_steps times, `Ok(None)`.
FzcScanEnd ==
    /\ s_pc = "scan" /\ s_entry \in FzcEntries
    /\ UNCHANGED s_entry
    /\ ~InRange(s_k, s_cfg.max_steps)
    /\ FzcReturn([kind |-> "None"])
    /\ UNCHANGED <<s_stage, s_cfg, s_k, t_prev, f_prev, t_a, t_b, f_a, s_it,
                   s_samples, s_evals, s_f0, events, f_b, kvars, dvars, tvars, gvars, xvars>>

\* find_zero_crossing: one iteration of the scan loop.
FzcScanStep(r) ==
    /\ s_pc = "scan" /\ s_entry \in FzcEntries
    /\ UNCHANGED s_entry
    /\ InRange(s_k, s_cfg.max_steps)
    /\ s_evals' = s_evals + 1
    /\ LET t_curr == t_prev + s_cfg.step
       IN  /\ s_samples' = Append(s_samples, Sample(t_curr, r))
           /\ IF ~r.ok
              THEN /\ FzcReturn(Propagate(r))
                   /\ UNCHANGED <<s_k, t_prev, f_prev, t_a, t_b, f_a, s_it>>
              ELSE IF is_genuine_crossing(f_prev, r.v)
                   THEN /\ IF t_prev < t_curr
                           THEN t_a' = t_prev /\ f_a' = f_prev /\ t_b' = t_curr
                           ELSE t_a' = t_curr /\ f_a' = r.v /\ t_b' = t_prev
                        /\ s_it' = 0
                        /\ s_pc' = "bisect"
                        /\ UNCHANGED <<s_k, t_prev, f_prev, s_result, s_prim>>
                   ELSE /\ t_prev' = t_curr
                        /\ f_prev' = r.v
                        /\ s_k' = s_k + 1
                        /\ UNCHANGED <<t_a, t_b, f_a, s_it, s_pc, s_result, s_prim>>
    /\ UNCHANGED <<s_stage, s_cfg, s_f0, events, f_b, kvars, dvars, tvars, gvars, xvars>>

\* find_zero_crossing: the bisection loop has run max_iterations times,
\* `return Ok(Some(0.5 * (t_a + t_b)))`.
FzcBisectEnd ==
    /\ s_pc = "bisect" /\ s_entry \in FzcEntries
    /\ UNCHANGED s_entry
    /\ ~InRange(s_it, s_cfg.max_iterations)
    /\ FzcReturn([kind |-> "Some", t |-> Mid(t_a, t_b)])
    /\ UNCHANGED <<s_stage, s_cfg, s_k, t_prev, f_prev, t_a, t_b, f_a, s_it,
                   s_samples, s_evals, s_f0, events, f_b, kvars, dvars, tvars, gvars, xvars>>

\* find_zero_crossing: one iteration of the bisection loop; on convergence the
\* loop breaks and the midpoint is returned.
FzcBisectStep(r) ==
    /\ s_pc = "bisect" /\ s_entry \in FzcEntries
    /\ UNCHANGED s_entry
    /\ InRange(s_it, s_cfg.max_iterations)
    /\ s_evals' = s_evals + 1
    /\ LET t_mid == Mid(t_a, t_b)
           na == IF f_a * r.v <= 0 THEN t_a ELSE t_mid
           nb == IF f_a * r.v <= 0 THEN t_mid ELSE t_b
       IN  IF ~r.ok
           THEN /\ FzcReturn(Propagate(r))
                /\ s_samples' = Append(s_samples, Sample(t_mid, r))
                /\ UNCHANGED <<t_a, t_b, f_a, s_it>>
           ELSE /\ t_a' = na
                /\ t_b' = nb
                /\ f_a' = IF f_a * r.v <= 0 THEN f_a ELSE r.v
                /\ s_it' = s_it + 1
                /\ UNCHANGED s_samples
                /\ IF Abs(nb - na) < s_cfg.convergence_days
                   THEN FzcReturn([kind |-> "Some", t |-> Mid(na, nb)])
                   ELSE UNCHANGED <<s_result, s_prim, s_pc>>
    /\ UNCHANGED <<s_stage, s_cfg, s_k, t_prev, f_prev, s_f0, events, f_b, kvars, dvars, tvars, gvars, xvars>>

(***************************************************************************)
(* dhruv_search::conjunction and the entry points built on it              *)
(*                                                                         *)
(* Times are on the same grid; LUNAR_STEP_DAYS (half a day) is one coarse  *)
(* step, so a day is two.  The separation function is evaluated lazily     *)
(* like the searched function above.  Of a ConjunctionEvent only the time  *)
(* is kept.                                                                *)
(***************************************************************************)

\* One day, in grid units.
DayUnits == 2 * StepUnits

MAX_SCAN_DAYS == 800

\* The step of the conjunction configurations a caller passes: 400 days.
WideStep == 400 * DayUnits

\* The convergence threshold of make_config (1e-8 days), on the grid: the
\* bracket falls below it after two halvings of a lunar step.
LunarConvergence == (StepUnits \div 2) - 1

\* lunar_phase::make_config.
make_config(target_deg) ==
    [target_separation_deg |-> target_deg, step_size_days |-> StepUnits,
     max_iterations |-> 50, convergence_days |-> LunarConvergence]

\* Configurations handed to next_conjunction / prev_conjunction.
ConjCfgs ==
    [target_separation_deg : {0, 180, 360}, step_size_days : {0, WideStep},
     max_iterations : 0..MaxIter, convergence_days : {0, 1, WideStep}]

\* ConjunctionConfig::validate: the first failed check, or "ok".
validate(config) ==
    IF config.target_separation_deg < 0 \/ config.target_separation_deg >= 360
    THEN "target_separation_deg must be in [0, 360)"
    ELSE IF config.step_size_days <= 0 THEN "step_size_days must be positive"
    ELSE IF config.max_iterations = 0 THEN "max_iterations must be > 0"
    ELSE IF config.convergence_days <= 0 THEN "convergence_days must be positive"
    ELSE "ok"

\* (a / b).ceil() for positive a, b.
CeilDiv(a, b) == (a + b - 1) \div b

EventEntries ==
    {"next_conjunction", "prev_conjunction", "next_purnima", "rs_next_purnima",
     "masa_for_date"}

\* find_event returns `found` to the entry point; its locals are gone.
FindEventReturn(found) ==
    /\ s_prim' = found
    /\ s_pc' = "ret"
    /\ s_k' = 0 /\ t_prev' = 0 /\ f_prev' = 0
    /\ t_a' = 0 /\ t_b' = 0 /\ f_a' = 0 /\ f_b' = 0 /\ s_it' = 0

\* A find_event that scans forward whatever the direction.
signed_step_forward(direction, config) == config.step_size_days

\* find_event: `let step = match direction { Forward => step, Backward => -step }`.
signed_step(direction, config) ==
    IF direction = "Forward" THEN config.step_size_days ELSE 0 - config.step_size_days

\* find_event up to the entry of its scan loop: validate, the signed step,
\* max_steps, and the first evaluation of the separation function.
FindEventEnter(jd_start, direction, config, r) ==
    IF validate(config) # "ok"
    THEN /\ FindEventReturn([kind |-> "Err", err |-> "InvalidConfig"])
         /\ s_cfg' = [jd_start |-> jd_start, config |-> config]
         /\ s_evals' = 0
    ELSE /\ s_cfg' = [jd_start |-> jd_start, config |-> config,
                         step |-> signed_step(direction, config),
                         max_steps |-> CeilDiv(MAX_SCAN_DAYS * DayUnits, config.step_size_days),
                         max_iterations |-> config.max_iterations,
                         convergence_days |-> config.convergence_days]
         /\ s_evals' = 1
         /\ IF ~r.ok
            THEN FindEventReturn(Propagate(r))
            ELSE /\ f_prev' = r.v
                 /\ t_prev' = jd_start
                 /\ s_prim' = NoResult
                 /\ s_pc' = "scan"
                 /\ s_k' = 0 /\ t_a' = 0 /\ t_b' = 0 /\ f_a' = 0 /\ f_b' = 0 /\ s_it' = 0

\* conjunction::next_conjunction is called.
NextConjunction(config, r) ==
    /\ s_pc = "idle"
    /\ s_entry' = "next_conjunction"
    /\ FindEventEnter(0, "Forward", config, r)
    /\ UNCHANGED <<s_stage, s_samples, s_f0, s_result, events, kvars, dvars, tvars, gvars, xvars>>

\* conjunction::prev_conjunction is called.
PrevConjunction(config, r) ==
    /\ s_pc = "idle"
    /\ s_entry' = "prev_conjunction"
    /\ FindEventEnter(0, "Backward", config, r)
    /\ UNCHANGED <<s_stage, s_samples, s_f0, s_result, events, kvars, dvars, tvars, gvars, xvars>>

\* lunar_phase::next_purnima is called.
NextPurnima(r) ==
    /\ s_pc = "idle"
    /\ s_entry' = "next_purnima"
    /\ FindEventEnter(0, "Forward", make_config(180), r)
    /\ UNCHANGED <<s_stage, s_samples, s_f0, s_result, events, kvars, dvars, tvars, gvars, xvars>>

\* dhruv_rs::next_purnima is called: `engine()?`, then lunar_phase::next_purnima.
RsNextPurnima(initialized, r) ==
    /\ s_pc = "idle"
    /\ s_entry' = "rs_next_purnima"
    /\ IF ~initialized
       THEN /\ s_result' = [kind |-> "Err", err |-> "NotInitialized"]
            /\ s_pc' = "done"
            /\ UNCHANGED <<s_cfg, s_k, t_prev, f_prev, t_a, t_b, f_a, f_b, s_it, s_evals,
                           s_prim>>
       ELSE /\ FindEventEnter(0, "Forward", make_config(180), r)
            /\ UNCHANGED s_result
    /\ UNCHANGED <<s_stage, s_samples, s_f0, events, kvars, dvars, tvars, gvars, xvars>>

\* panchang::masa_for_date is called: it starts with prev_amavasya.
MasaForDate(r) ==
    /\ s_pc = "idle"
    /\ s_entry' = "masa_for_date"
    /\ s_stage' = 1
    /\ s_f0' = IF r.ok THEN [known |-> TRUE, v |-> r.v] ELSE s_f0
    /\ FindEventEnter(0, "Backward", make_config(0), r)
    /\ UNCHANGED <<s_samples, s_result, events, kvars, dvars, tvars, gvars, xvars>>

\* find_event: the scan loop has run max_steps times, `Ok(None)`.
FindEventScanEnd ==
    /\ s_pc = "scan" /\ s_entry \in EventEntries
    /\ ~InRange(s_k, s_cfg.max_steps)
    /\ FindEventReturn([kind |-> "None"])
    /\ UNCHANGED <<s_entry, s_stage, s_cfg, s_samples, s_evals, s_f0, s_result,
                   events, kvars, dvars, tvars, gvars, xvars>>

\* find_event: one iteration of the scan loop.
FindEventScanStep(r) ==
    /\ s_pc = "scan" /\ s_entry \in EventEntries
    /\ InRange(s_k, s_cfg.max_steps)
    /\ s_evals' = s_evals + 1
    /\ LET t_curr == t_prev + s_cfg.step
       IN  IF ~r.ok
           THEN FindEventReturn(Propagate(r))
           ELSE IF is_genuine_crossing(f_prev, r.v)
                THEN /\ IF t_prev < t_curr
                        THEN t_a' = t_prev /\ f_a' = f_prev /\ t_b' = t_curr /\ f_b' = r.v
                        ELSE t_a' = t_curr /\ f_a' = r.v /\ t_b' = t_prev /\ f_b' = f_prev
                     /\ s_it' = 0
                     /\ s_pc' = "bisect"
                     /\ UNCHANGED <<s_k, t_prev, f_prev, s_prim>>
                ELSE /\ t_prev' = t_curr
                     /\ f_prev' = r.v
                     /\ s_k' = s_k + 1
                     /\ UNCHANGED <<t_a, t_b, f_a, f_b, s_it, s_pc, s_prim>>
    /\ UNCHANGED <<s_entry, s_stage, s_cfg, s_samples, s_f0, s_result, events, kvars, dvars, tvars, gvars, xvars>>

\* bisect_refinement: the loop has run max_iterations times; the event at the
\* midpoint is returned and find_event returns `Ok(Some(event))`.
BisectRefinementEnd ==
    /\ s_pc = "bisect" /\ s_entry \in EventEntries
    /\ ~InRange(s_it, s_cfg.max_iterations)
    /\ FindEventReturn([kind |-> "Some", t |-> Mid(t_a, t_b)])
    /\ UNCHANGED <<s_entry, s_stage, s_cfg, s_samples, s_evals, s_f0, s_result,
                   events, kvars, dvars, tvars, gvars, xvars>>

\* bisect_refinement: one iteration of the loop; on convergence the loop
\* breaks and the event at the midpoint is returned.
BisectRefinementStep(r) ==
    /\ s_pc = "bisect" /\ s_entry \in EventEntries
    /\ InRange(s_it, s_cfg.max_iterations)
    /\ s_evals' = s_evals + 1
    /\ LET t_mid == Mid(t_a, t_b)
           na == IF f_a * r.v <= 0 THEN t_a ELSE t_mid
           nb == IF f_a * r.v <= 0 THEN t_mid ELSE t_b
       IN  IF ~r.ok
           THEN FindEventReturn(Propagate(r))
           ELSE IF Abs(nb - na) < s_cfg.convergence_days
                THEN FindEventReturn([kind |-> "Some", t |-> Mid(na, nb)])
                ELSE /\ t_a' = na
                     /\ t_b' = nb
                     /\ f_a' = IF f_a * r.v <= 0 THEN f_a ELSE r.v
                     /\ s_it' = s_it + 1
                     /\ UNCHANGED <<s_prim, s_pc, s_k, t_prev, f_prev, f_b>>
    /\ UNCHANGED <<s_entry, s_stage, s_cfg, s_samples, s_f0, s_result, events, kvars, dvars, tvars, gvars, xvars>>

\* next_conjunction / prev_conjunction hand find_event's result to the caller.
ConjunctionReturn ==
    /\ s_pc = "ret" /\ s_entry \in {"next_conjunction", "prev_conjunction"}
    /\ s_result' = s_prim
    /\ s_pc' = "done"
    /\ UNCHANGED <<s_entry, s_stage, s_cfg, s_k, t_prev, f_prev, t_a, t_b, f_a, s_it,
                   s_samples, s_evals, s_f0, s_prim, events, f_b, kvars, dvars, tvars, gvars, xvars>>

\* lunar_phase::next_purnima: `?` on next_conjunction's result, then
\* `result.map(conjunction_to_phase)`.
next_purnima(found) ==
    IF found.kind = "Some"
    THEN [kind |-> "Some", phase |-> "FullMoon", jd_tdb |-> found.t]
    ELSE found

NextPurnimaReturn ==
    /\ s_pc = "ret" /\ s_entry = "next_purnima"
    /\ s_result' = next_purnima(s_prim)
    /\ s_pc' = "done"
    /\ UNCHANGED <<s_entry, s_stage, s_cfg, s_k, t_prev, f_prev, t_a, t_b, f_a, s_it,
                   s_samples, s_evals, s_f0, s_prim, events, f_b, kvars, dvars, tvars, gvars, xvars>>

\* Option::ok_or(SearchError::NoConvergence(..)) behind a `?`.
ok_or_NoConvergence(found) ==
    IF found.kind = "None" THEN [kind |-> "Err", err |-> "NoConvergence"] ELSE found

\* dhruv_rs::next_purnima: `dhruv_search::next_purnima(..)?.ok_or(NoConvergence)`.
RsNextPurnimaReturn ==
    /\ s_pc = "ret" /\ s_entry = "rs_next_purnima"
    /\ s_result' = LET x == ok_or_NoConvergence(next_purnima(s_prim))
                   IN  IF x.kind = "Some" THEN [kind |-> "Ok", event |-> x] ELSE x
    /\ s_pc' = "done"
    /\ UNCHANGED <<s_entry, s_stage, s_cfg, s_k, t_prev, f_prev, t_a, t_b, f_a, s_it,
                   s_samples, s_evals, s_f0, s_prim, events, f_b, kvars, dvars, tvars, gvars, xvars>>

\* masa_for_date: prev_amavasya has returned; on a new moon found, next_amavasya
\* starts from the same instant, where the separation is already known.
MasaPrevReturn ==
    /\ s_pc = "ret" /\ s_entry = "masa_for_date" /\ s_stage = 1
    /\ IF s_prim.kind # "Some"
       THEN /\ s_result' = ok_or_NoConvergence(s_prim)
            /\ s_pc' = "done"
            /\ UNCHANGED <<s_stage, s_cfg, s_k, t_prev, f_prev, t_a, t_b, f_a, f_b, s_it,
                           s_evals, s_f0, s_prim>>
       ELSE /\ s_stage' = 2
            /\ FindEventEnter(0, "Forward", make_config(0), [ok |-> TRUE, v |-> s_f0.v])
            /\ s_f0' = [known |-> FALSE]
            /\ UNCHANGED s_result
    /\ UNCHANGED <<s_entry, s_samples, events, kvars, dvars, tvars, gvars, xvars>>

\* masa_for_date: next_amavasya has returned; on a new moon found, the two
\* sun_sidereal_rashi_index calls (which may fail) and the MasaInfo.
MasaNextReturn(r) ==
    /\ s_pc = "ret" /\ s_entry = "masa_for_date" /\ s_stage = 2
    /\ s_result' = IF s_prim.kind # "Some" THEN ok_or_NoConvergence(s_prim)
                   ELSE IF r.ok THEN [kind |-> "Ok"] ELSE Propagate(r)
    /\ s_pc' = "done"
    /\ UNCHANGED <<s_entry, s_stage, s_cfg, s_k, t_prev, f_prev, t_a, t_b, f_a, s_it,
                   s_samples, s_evals, s_f0, s_prim, events, f_b, kvars, dvars, tvars, gvars, xvars>>

(***************************************************************************)
(* conjunction::search_conjunctions, the range search, and the sankranti   *)
(* searches for one rashi, which run find_zero_crossing.                   *)
(***************************************************************************)

Min(a, b) == IF a < b THEN a ELSE b

\* The ends of the ranges passed to search_conjunctions (its start is 0): a
\* reversed range, an empty one, and ranges of one, two and three intervals.
JdEnds == {0 - WideStep, 0, WideStep \div 2, 2 * WideStep, 2 * WideStep + StepUnits}

\* A range search that looks one step beyond the end it was given.
range_end_padded(cfg) == cfg.jd_end + cfg.config.step_size_days

\* The jd_end that the loop of search_conjunctions clamps to, filters by and
\* breaks at: the argument.
range_end(cfg) == cfg.jd_end

\* search_conjunctions: validate, the range check, the first evaluation.
SearchConjunctions(jd_end, config, r) ==
    /\ s_pc = "idle"
    /\ s_entry' = "search_conjunctions"
    /\ s_cfg' = [jd_start |-> 0, jd_end |-> jd_end, config |-> config]
    /\ events' = <<>>
    /\ IF validate(config) # "ok" \/ jd_end <= 0
       THEN /\ s_result' = [kind |-> "Err", err |-> "InvalidConfig"]
            /\ s_pc' = "done"
            /\ s_evals' = 0
            /\ UNCHANGED <<t_prev, f_prev>>
       ELSE /\ s_evals' = 1
            /\ IF ~r.ok
               THEN /\ s_result' = Propagate(r)
                    /\ s_pc' = "done"
                    /\ UNCHANGED <<t_prev, f_prev>>
               ELSE /\ f_prev' = r.v
                    /\ t_prev' = 0
                    /\ s_pc' = "scan"
                    /\ UNCHANGED s_result
    /\ UNCHANGED <<s_stage, s_k, t_a, t_b, f_a, f_b, s_it, s_samples, s_f0, s_prim,
                   kvars, dvars, tvars, gvars, xvars>>

\* search_conjunctions, the end of a loop pass that looked at the interval
\* ending at t_curr with value f_curr: break at the end of the range, or
\* move on to the next interval.
RangeLoopTail(t_curr, f_curr) ==
    IF t_curr >= range_end(s_cfg)
    THEN /\ s_result' = [kind |-> "Ok", events |-> events']
         /\ s_pc' = "done"
         /\ t_prev' = 0 /\ f_prev' = 0
    ELSE /\ t_prev' = t_curr
         /\ f_prev' = f_curr
         /\ s_pc' = "scan"
         /\ UNCHANGED s_result

\* search_conjunctions: a loop pass up to the crossing test.
SearchConjunctionsStep(r) ==
    /\ s_pc = "scan" /\ s_entry = "search_conjunctions"
    /\ s_evals' = s_evals + 1
    /\ LET t_curr == Min(t_prev + s_cfg.config.step_size_days, range_end(s_cfg))
       IN  IF ~r.ok
           THEN /\ s_result' = Propagate(r)
                /\ s_pc' = "done"
                /\ t_prev' = 0 /\ f_prev' = 0
                /\ UNCHANGED <<events, t_a, t_b, f_a, f_b, s_it>>
           ELSE IF is_genuine_crossing(f_prev, r.v)
                THEN /\ t_a' = t_prev /\ f_a' = f_prev /\ t_b' = t_curr /\ f_b' = r.v
                     /\ s_it' = 0
                     /\ s_pc' = "bisect"
                     /\ UNCHANGED <<events, t_prev, f_prev, s_result>>
                ELSE /\ UNCHANGED <<events, t_a, t_b, f_a, f_b, s_it>>
                     /\ RangeLoopTail(t_curr, r.v)
    /\ UNCHANGED <<s_entry, s_stage, s_cfg, s_k, s_samples, s_f0, s_prim,
                   kvars, dvars, tvars, gvars, xvars>>

\* search_conjunctions: bisect_refinement returned the event at time t; it
\* is pushed if it lies in the range, and the loop pass ends.
RangeCollect(t) ==
    /\ events' = IF t >= s_cfg.jd_start /\ t <= range_end(s_cfg)
                 THEN Append(events, t) ELSE events
    /\ RangeLoopTail(Min(t_prev + s_cfg.config.step_size_days, range_end(s_cfg)), f_b)
    /\ t_a' = 0 /\ t_b' = 0 /\ f_a' = 0 /\ f_b' = 0 /\ s_it' = 0

\* bisect_refinement under search_conjunctions: the loop has run
\* max_iterations times.
RangeBisectEnd ==
    /\ s_pc = "bisect" /\ s_entry = "search_conjunctions"
    /\ ~InRange(s_it, s_cfg.config.max_iterations)
    /\ RangeCollect(Mid(t_a, t_b))
    /\ UNCHANGED <<s_entry, s_stage, s_cfg, s_k, s_samples, s_evals, s_f0, s_prim,
                   kvars, dvars, tvars, gvars, xvars>>

\* bisect_refinement under search_conjunctions: one iteration of the loop.
RangeBisectStep(r) ==
    /\ s_pc = "bisect" /\ s_entry = "search_conjunctions"
    /\ InRange(s_it, s_cfg.config.max_iterations)
    /\ s_evals' = s_evals + 1
    /\ LET t_mid == Mid(t_a, t_b)
           na == IF f_a * r.v <= 0 THEN t_a ELSE t_mid
           nb == IF f_a * r.v <= 0 THEN t_mid ELSE t_b
       IN  IF ~r.ok
           THEN /\ s_result' = Propagate(r)
                /\ s_pc' = "done"
                /\ t_prev' = 0 /\ f_prev' = 0
                /\ t_a' = 0 /\ t_b' = 0 /\ f_a' = 0 /\ f_b' = 0 /\ s_it' = 0
                /\ UNCHANGED events
           ELSE IF Abs(nb - na) < s_cfg.config.convergence_days
                THEN RangeCollect(Mid(na, nb))
                ELSE /\ t_a' = na
                     /\ t_b' = nb
                     /\ f_a' = IF f_a * r.v <= 0 THEN f_a ELSE r.v
                     /\ s_it' = s_it + 1
                     /\ UNCHANGED <<events, s_result, s_pc, t_prev, f_prev, f_b>>
    /\ UNCHANGED <<s_entry, s_stage, s_cfg, s_k, s_samples, s_f0, s_prim,
                   kvars, dvars, tvars, gvars, xvars>>

\* search_util::normalize_to_pm180, on whole degrees.
normalize_to_pm180(deg) ==
    LET d == RustRem(deg, 360)
    IN  IF d > 180 THEN d - 360
        ELSE IF d <= 0 - 180 THEN d + 360
        ELSE d

\* Ecliptic longitudes of the two bodies, in [0, 360), and target separations
\* that ConjunctionConfig::validate accepts.
LonVals == {0, 1, 90, 179, 180, 181, 270, 359}

TargetVals == {0, 90, 180, 359}

\* conjunction::compute_actual_separation.
compute_actual_separation(lon1, lon2, target_deg) ==
    LET raw == RustRem(RustRem(lon1 - lon2, 360) + 360, 360)
        delta == normalize_to_pm180(raw - target_deg)
    IN  target_deg + delta

\* bisect_refinement fills in the event's actual_separation_deg from the
\* longitudes of its last evaluation.
ComputeActualSeparation(lon1, lon2, target_deg) ==
    /\ s_pc = "idle"
    /\ s_entry' = "compute_actual_separation"
    /\ s_cfg' = [lon1 |-> lon1, lon2 |-> lon2, target_deg |-> target_deg]
    /\ s_result' = [kind |-> "Deg", val |-> compute_actual_separation(lon1, lon2, target_deg)]
    /\ s_pc' = "done"
    /\ UNCHANGED <<s_stage, s_k, t_prev, f_prev, t_a, t_b, f_a, s_it, s_samples, s_evals,
                   s_f0, s_prim, events, f_b, kvars, dvars, tvars, gvars, xvars>>

\* sankranti.rs has its own scan window.
SANKRANTI_MAX_SCAN_DAYS == 400

\* The step of the sankranti configurations a caller passes: 200 days.
SankStep == 200 * DayUnits

\* Configurations handed to next_specific_sankranti / prev_specific_sankranti.
SankCfgs ==
    [step_size_days : {0, SankStep}, max_iterations : 0..MaxIter,
     convergence_days : {0, 1, SankStep}]

\* A validate that forgets the convergence threshold.
sankranti_validate_noconv(config) ==
    IF config.step_size_days <= 0 THEN "step_size_days must be positive"
    ELSE IF config.max_iterations = 0 THEN "max_iterations must be > 0"
    ELSE "ok"

\* SankrantiConfig::validate: the first failed check, or "ok".
sankranti_validate(config) ==
    IF config.step_size_days <= 0 THEN "step_size_days must be positive"
    ELSE IF config.max_iterations = 0 THEN "max_iterations must be > 0"
    ELSE IF config.convergence_days <= 0 THEN "convergence_days must be positive"
    ELSE "ok"

\* next/prev_specific_sankranti up to the first evaluation inside
\* find_zero_crossing: validate, max_steps, the signed step.
SpecificSankrantiEnter(direction, config, r) ==
    IF sankranti_validate(config) # "ok"
    THEN /\ s_result' = [kind |-> "Err", err |-> "InvalidConfig"]
         /\ s_pc' = "done"
         /\ s_cfg' = [jd_start |-> 0, config |-> config]
         /\ s_evals' = 0
         /\ s_samples' = <<>>
         /\ UNCHANGED <<s_k, t_prev, f_prev, t_a, t_b, f_a, s_it, s_prim>>
    ELSE FzcEnter([jd_start |-> 0, config |-> config,
                   step |-> IF direction = "Forward" THEN config.step_size_days
                            ELSE 0 - config.step_size_days,
                   max_steps |-> CeilDiv(SANKRANTI_MAX_SCAN_DAYS * DayUnits,
                                         config.step_size_days),
                   max_iterations |-> config.max_iterations,
                   convergence_days |-> config.convergence_days], r)

\* sankranti::next_specific_sankranti is called.
NextSpecificSankranti(config, r) ==
    /\ s_pc = "idle"
    /\ s_entry' = "next_specific_sankranti"
    /\ SpecificSankrantiEnter("Forward", config, r)
    /\ UNCHANGED <<s_stage, s_f0, events, f_b, kvars, dvars, tvars, gvars, xvars>>

\* sankranti::prev_specific_sankranti is called.
PrevSpecificSankranti(config, r) ==
    /\ s_pc = "idle"
    /\ s_entry' = "prev_specific_sankranti"
    /\ SpecificSankrantiEnter("Backward", config, r)
    /\ UNCHANGED <<s_stage, s_f0, events, f_b, kvars, dvars, tvars, gvars, xvars>>

\* next/prev_specific_sankranti: `?` on find_zero_crossing's result, then
\* build_event (one more evaluation, outcome b) for a time found.
SpecificSankrantiReturn(b) ==
    /\ s_pc = "ret" /\ s_entry \in {"next_specific_sankranti", "prev_specific_sankranti"}
    /\ IF s_prim.kind = "Some"
       THEN /\ s_result' = IF b.ok THEN [kind |-> "Some", jd_tdb |-> s_prim.t] ELSE Propagate(b)
            /\ s_evals' = s_evals + 1
       ELSE /\ s_result' = s_prim
            /\ UNCHANGED s_evals
    /\ s_pc' = "done"
    /\ UNCHANGED <<s_entry, s_stage, s_cfg, s_k, t_prev, f_prev, t_a, t_b, f_a, s_it,
                   s_samples, s_f0, s_prim, events, f_b, kvars, dvars, tvars, gvars, xvars>>

(***************************************************************************)
(* dhruv_search::sankranti::search_sankrantis and the next_sankranti it    *)
(* calls.  The cursor moves on by 0.01 day, so these times are measured on *)
(* a finer grid, on which 0.01 day is one coarse step.  The UtcTime values *)
(* are carried as the JD TDB they stand for.                               *)
(***************************************************************************)

\* A day, and the 0.01 day of `event_jd + 0.01`, in units of the finer grid.
SankDayUnits == 100 * StepUnits

CursorAdvance == SankDayUnits \div 100

\* A scan step whose MaxIter bisections end an odd number of days after the
\* start of the scan: a bisection can then end before the cursor, since
\* next_sankranti starts its scan up to 1.5 days early.
SankRangeStep == StepUnits * SankDayUnits

\* Configurations handed to search_sankrantis.
SankRangeCfgs ==
    [step_size_days : {0, SankRangeStep}, max_iterations : {0, MaxIter},
     convergence_days : {0, 1}]

\* The ends of the ranges passed to search_sankrantis (its start is 0): a
\* reversed range, an empty one, and a range of 2 days.
SankJdEnds == {0 - SankDayUnits, 0, 2 * SankDayUnits}

\* Outcomes of the evaluations inside these searches: a value on either
\* side of the boundary, or a failure.
SankEvalOutcomes ==
    {r \in EvalOutcomes : IF r.ok THEN r.v \in {0 - 1, 1} ELSE r.err = "EpochOutOfRange"}

\* A UtcTime holds calendar fields down to a fraction of a second, which here
\* is two units of the finer grid: UtcTime::from_jd_tdb keeps a JD TDB that
\* such a time stands for and moves any other to a neighbouring one, either
\* way; to_jd_tdb gives back the JD TDB the UtcTime stands for.
Roundings == {0 - 1, 1}

from_jd_tdb(jd, e) == IF jd % 2 = 0 THEN jd ELSE jd + e

to_jd_tdb(utc) == utc

\* estimate_days = deg_to_go / 0.986 for a Sun that is at the boundary, and for
\* one that is a day and a half, and a little more, before it.
EstimateDays == {0, 3 * (SankDayUnits \div 2) + 1}

\* Outcomes of sun_sidereal_longitude at the cursor, by the estimate they lead to.
LonOutcomes ==
    {[ok |-> TRUE, estimate_days |-> e] : e \in EstimateDays}
        \cup {[ok |-> FALSE, err |-> "EpochOutOfRange"]}

Max(a, b) == IF a > b THEN a ELSE b

\* next_sankranti: search_start = jd + estimate_days.max(0.5) - 2.0.
search_start(jd, estimate_days) ==
    jd + Max(estimate_days, SankDayUnits \div 2) - 2 * SankDayUnits

\* search_sankrantis: `cursor = from_jd_tdb(event_jd + 0.01)`, as the jd that
\* next_sankranti reads back from it.
next_cursor(event_jd, e) == to_jd_tdb(from_jd_tdb(event_jd + CursorAdvance, e))

\* search_sankrantis: the test that ends the loop.
never_past_end(event_jd, jd_end) == FALSE

past_end(event_jd, jd_end) == event_jd > jd_end

\* search_sankrantis returns; the locals of the last find_zero_crossing stay
\* as they were.
SankrantisReturn(result) ==
    /\ s_result' = result
    /\ s_pc' = "done"
    /\ UNCHANGED <<s_cfg, s_evals, s_samples, s_k, t_a, t_b, f_a, s_it, t_prev, f_prev, s_prim>>

\* next_sankranti(cursor) up to the first evaluation inside find_zero_crossing:
\* the Sun's longitude at the cursor, the boundary and the estimate, max_steps.
NextSankrantiEnter(jd_end, jd, config, lon, r) ==
    IF ~lon.ok
    THEN /\ s_result' = Propagate(lon)
         /\ s_pc' = "done"
         /\ s_cfg' = [jd_start |-> jd, jd |-> jd, jd_end |-> jd_end, config |-> config]
         /\ UNCHANGED <<s_evals, s_samples, s_k, t_a, t_b, f_a, s_it, t_prev, f_prev, s_prim>>
    ELSE FzcEnter([jd_start |-> search_start(jd, lon.estimate_days),
                   jd |-> jd, jd_end |-> jd_end, config |-> config,
                   step |-> config.step_size_days,
                   max_steps |-> CeilDiv(SANKRANTI_MAX_SCAN_DAYS * SankDayUnits,
                                         config.step_size_days),
                   max_iterations |-> config.max_iterations,
                   convergence_days |-> config.convergence_days], r)

\* search_sankrantis is called on the range [0, jd_end]: validate, the range
\* check, and the first call of next_sankranti.
SearchSankrantis(jd_end, config, lon, r) ==
    /\ s_pc = "idle"
    /\ s_entry' = "search_sankrantis"
    /\ events' = <<>>
    /\ s_stage' = 1
    /\ IF sankranti_validate(config) # "ok" \/ jd_end <= 0
       THEN /\ s_result' = [kind |-> "Err", err |-> "InvalidConfig"]
            /\ s_pc' = "done"
            /\ s_cfg' = [jd_start |-> 0, jd |-> 0, jd_end |-> jd_end, config |-> config]
            /\ UNCHANGED <<s_evals, s_samples, s_k, t_a, t_b, f_a, s_it, t_prev, f_prev,
                           s_prim>>
       ELSE NextSankrantiEnter(jd_end, 0, config, lon, r)
    /\ UNCHANGED <<s_f0, f_b, kvars, dvars, tvars, gvars, xvars>>

\* find_zero_crossing has returned to next_sankranti: an error is passed up;
\* a time before the cursor starts the second search, from the cursor; any
\* other time becomes an event (build_event, outcome b), which search_sankrantis
\* drops, ending the loop, if it lies past the end, and otherwise pushes before
\* it calls next_sankranti again; nothing found ends the loop.  e1 and e2 are
\* the ways the event time and the cursor are rounded into a UtcTime.
SearchSankrantisStep(b, lon, r, e1, e2) ==
    /\ s_pc = "ret" /\ s_entry = "search_sankrantis"
    /\ UNCHANGED s_entry
    /\ IF s_prim.kind = "Err"
       THEN SankrantisReturn(s_prim) /\ UNCHANGED <<s_stage, events>>
       ELSE IF s_prim.kind = "None"
       THEN SankrantisReturn([kind |-> "Ok", events |-> events]) /\ UNCHANGED <<s_stage, events>>
       ELSE IF s_stage = 1 /\ ~(s_prim.t >= s_cfg.jd)
       THEN /\ s_stage' = 2
            /\ FzcEnter([s_cfg EXCEPT !.jd_start = s_cfg.jd], r)
            /\ UNCHANGED events
       ELSE IF ~b.ok
       THEN SankrantisReturn(Propagate(b)) /\ UNCHANGED <<s_stage, events>>
       ELSE LET event_jd == to_jd_tdb(from_jd_tdb(s_prim.t, e1))
            IN  IF past_end(event_jd, s_cfg.jd_end)
                THEN SankrantisReturn([kind |-> "Ok", events |-> events])
                        /\ UNCHANGED <<s_stage, events>>
                ELSE /\ events' = Append(events, [jd_tdb |-> event_jd])
                     /\ s_stage' = 1
                     /\ NextSankrantiEnter(s_cfg.jd_end, next_cursor(event_jd, e2),
                                           s_cfg.config, lon, r)
    /\ UNCHANGED <<s_f0, f_b, kvars, dvars, tvars, gvars, xvars>>

(***************************************************************************)
(* jpl_kernel::spk::evaluate_type2 up to the choice of the record: the     *)
(* segment starts at word 1 of the file and its descriptor has been read.  *)
(***************************************************************************)

\* Bound: the largest record count N of a modelled descriptor.
MaxType2Recs == 3

\* Descriptors: INIT = 0, INTLEN negative, zero and positive, RSIZE too
\* small, valid (one coefficient per axis) and not 2 mod 3, N from -1 up
\* and NaN.
Type2Descriptors ==
    [init : {0}, intlen : {0 - 2, 0, 2, 3}, rsize : {F64(2), F64(5), F64(6)},
     n : {F64(k) : k \in (0 - 1)..MaxType2Recs} \cup {NaNF64}]

\* Query epochs, before, inside and after the records.
Type2Epochs == (0 - 3)..(3 * MaxType2Recs)

\* data.len() in bytes: the descriptor after 0 .. MaxType2Recs + 1 records
\* of 5 doubles (what follows the segment's records may be another segment).
DataLens == {8 * (4 + 5 * j) : j \in 0..(MaxType2Recs + 1)}

\* (x / d).floor() for whole x and d, as a double.
FloorQuot(x, d) ==
    IF d = 0
    THEN IF x > 0 THEN HugeF64 ELSE IF x < 0 THEN NegHugeF64 ELSE NaNF64
    ELSE IF d > 0 THEN F64(x \div d) ELSE F64((0 - x) \div (0 - d))

\* usize::min.
UsizeMin(a, b) ==
    LET less == IF (a < 0) = (b < 0) THEN a < b ELSE b < 0
    IN  IF less THEN a ELSE b

\* usize::saturating_sub(1).
saturating_sub_1(n) == IF n = 0 THEN 0 ELSE n - 1

\* evaluate_type2: `((epoch - init) / intlen).floor() as usize`, then
\* `.min(n.saturating_sub(1))`.
record_index(desc, epoch_tdb_s) ==
    UsizeMin(F64AsUsize(FloorQuot(epoch_tdb_s - desc.init, desc.intlen)),
             saturating_sub_1(F64AsUsize(desc.n)))

\* evaluate_type2 for a segment with descriptor desc in a file of data_len
\* bytes: the RSIZE check, the record index, the check that the record lies
\* in the file, the RADIUS check; Ok carries the index of the record read.
evaluate_type2(desc, epoch_tdb_s, data_len, radius_zero) ==
    LET rsize == F64AsUsize(desc.rsize)
        record_byte == 0 + record_index(desc, epoch_tdb_s) * rsize * 8
    IN  IF rsize < 3 \/ (rsize - 2) % 3 # 0
        THEN [kind |-> "Err", err |-> "BadSegmentData"]
        ELSE IF record_byte < 0 \/ record_byte + rsize * 8 > data_len
        THEN [kind |-> "Err", err |-> "BadSegmentData"]
        ELSE IF radius_zero
        THEN [kind |-> "Err", err |-> "BadSegmentData"]
        ELSE [kind |-> "Ok", record_index |-> record_index(desc, epoch_tdb_s)]

\* SpkKernel::evaluate dispatches a Type 2 segment to evaluate_type2.
EvaluateType2(desc, epoch_tdb_s, data_len, radius_zero) ==
    /\ k_pc = "idle"
    /\ k_op' = [name |-> "evaluate_type2", desc |-> desc, epoch |-> epoch_tdb_s,
                data_len |-> data_len]
    /\ k_result' = evaluate_type2(desc, epoch_tdb_s, data_len, radius_zero)
    /\ k_pc' = "done"
    /\ UNCHANGED <<segments, code, k_last, k_iter, dvars, tvars, svars, gvars, xvars>>

(***************************************************************************)
(* Specifications                                                          *)
(***************************************************************************)

KIdle ==
    /\ k_pc = "idle"
    /\ k_op = [name |-> "none"]
    /\ code = 0
    /\ k_last = NoStep
    /\ k_iter = 0
    /\ k_result = NoResult

(***************************************************************************)
(* dhruv_rs::global: the process-wide engine singleton.  Threads call init *)
(* concurrently; Engine::new touches nothing shared, ENGINE.set is atomic. *)
(***************************************************************************)

\* Threads that call init and engine(), each any number of times, and the
\* configurations passed.
NumThreads == 2

Threads == 1..NumThreads

EngineConfigs == {"default", "custom"}

\* The errors Engine::new reports for a configuration it cannot build from.
EngineNewErrors == {"InvalidConfig", "KernelLoad"}

\* Engine::new(config): the engine built from the configuration, or an error,
\* depending on the files the configuration names.
EngineNew(config) ==
    {[ok |-> TRUE, eng |-> [config |-> config]]}
        \cup {[ok |-> FALSE, err |-> e] : e \in EngineNewErrors}

\* OnceLock::new().
Empty == [config |-> "none"]

NoCall == [pc |-> "idle", config |-> "none", eng |-> Empty, after |-> FALSE,
           result |-> NoResult]

NoEngineCall == [seen |-> <<>>, result |-> NoResult]

GIdle ==
    /\ ENGINE = Empty
    /\ init_calls = [t \in Threads |-> NoCall]
    /\ engine_calls = [t \in Threads |-> NoEngineCall]
    /\ installed = <<>>

\* is_initialized().
is_initialized == ENGINE # Empty

\* init, first statement: `let eng = Engine::new(config)?`.  `after` records
\* whether the engine was already installed when the call was made.
Init(t, config, r) ==
    /\ init_calls[t].pc \in {"idle", "done"}
    /\ init_calls' =
         [init_calls EXCEPT ![t] =
            IF r.ok
            THEN [pc |-> "set", config |-> config, eng |-> r.eng, after |-> is_initialized,
                  result |-> NoResult]
            ELSE [pc |-> "done", config |-> config, eng |-> Empty, after |-> is_initialized,
                  result |-> [kind |-> "Err", err |-> "Engine", cause |-> r.err]]]
    /\ UNCHANGED <<ENGINE, engine_calls, installed, kvars, dvars, tvars, svars, xvars>>

\* A cell whose set replaces the value it holds.
OnceLockReplace(cell, value) == [cell |-> value, res |-> "Ok"]

\* OnceLock::set: stores the value if the cell is empty, and otherwise hands
\* the value back as an error.
OnceLockSet(cell, value) ==
    IF cell = Empty THEN [cell |-> value, res |-> "Ok"] ELSE [cell |-> cell, res |-> "Err"]

\* init, second statement: `ENGINE.set(eng).map_err(|_| AlreadyInitialized)`.
InitSet(t) ==
    /\ init_calls[t].pc = "set"
    /\ LET set == OnceLockSet(ENGINE, init_calls[t].eng)
       IN  /\ ENGINE' = set.cell
           /\ init_calls' =
                [init_calls EXCEPT ![t].pc = "done",
                                   ![t].eng = Empty,
                                   ![t].result =
                                      IF set.res = "Ok" THEN [kind |-> "Ok"]
                                      ELSE [kind |-> "Err", err |-> "AlreadyInitialized"]]
           /\ installed' = IF set.res = "Ok" THEN Append(installed, init_calls[t].eng)
                            ELSE installed
    /\ UNCHANGED <<engine_calls, kvars, dvars, tvars, svars, xvars>>

\* An engine() that hands out whatever the cell holds.
engine_unchecked(cell) == [kind |-> "Ok", eng |-> cell]

\* engine(): `ENGINE.get().ok_or(DhruvError::NotInitialized)`.
engine(cell) ==
    IF cell = Empty THEN [kind |-> "Err", err |-> "NotInitialized"]
    ELSE [kind |-> "Ok", eng |-> cell]

\* A thread that is not inside init calls engine().
EngineGet(t) ==
    /\ init_calls[t].pc \in {"idle", "done"}
    /\ engine_calls' = [engine_calls EXCEPT ![t] =
                           [seen |-> installed, result |-> engine(ENGINE)]]
    /\ UNCHANGED <<ENGINE, init_calls, installed, kvars, dvars, tvars, svars, xvars>>

GNext ==
    \/ \E t \in Threads, config \in EngineConfigs : \E r \in EngineNew(config) : Init(t, config, r)
    \/ \E t \in Threads : InitSet(t)
    \/ \E t \in Threads : EngineGet(t)

(***************************************************************************)
(* eph_ffi_c: the exported C functions                                     *)
(***************************************************************************)

\* The addresses Box::new can hand out for engines.
MaxHandles == 2

Handles == 1..MaxHandles

\* The null engine handle (ptr::null_mut()).
NullHandle == 0

EPH_MAX_SPK_PATHS == 8

\* A pointer argument: null, or the address of a value.
NullPtr == [null |-> TRUE, to |-> <<>>]

Ptr(value) == [null |-> FALSE, to |-> <<value>>]

\* EphEngineConfig values a caller may point at: the path count and whether
\* every path buffer decodes as UTF-8.
FfiConfigs == [spk_path_count : {0, 1, EPH_MAX_SPK_PATHS + 1}, utf8 : BOOLEAN]

\* EphQuery values a caller may point at: whether the three codes are known ones,
\* and the epoch.
FfiQueries == [codes : BOOLEAN, epoch_tdb_jd : {1, 2}]

ConfigPtrs == {NullPtr} \cup {Ptr(c) : c \in FfiConfigs}

QueryPtrs == {NullPtr} \cup {Ptr(q) : q \in FfiQueries}

\* out_engine is null or the address of the caller's handle variable; out_state
\* is null or the address of the caller's buffer.
OutEnginePtrs == {NullPtr, Ptr("engine_ptr")}

OutStatePtrs == {NullPtr, Ptr("out_state")}

\* The caller's buffer before anything was written to it, and after.
NoState == [set |-> FALSE, epoch_tdb_jd |-> 0]

StateAt(epoch) == [set |-> TRUE, epoch_tdb_jd |-> epoch]

NoFfiCall == [fn |-> "none", nulls |-> {}, engine |-> NullHandle, status |-> "none",
              derefs |-> {}, writes |-> {},
              before |-> [live |-> {}, engine_ptr |-> NullHandle, out_state_mem |-> NoState]]

FIdle ==
    /\ live = {}
    /\ engine_ptr = NullHandle
    /\ out_state_mem = NoState
    /\ f_call = NoFfiCall
    /\ f_ub = FALSE

\* The errors of the core engine, and EphStatus::from(&EngineError).
EngineErrors == {"InvalidConfig", "InvalidQuery", "KernelLoad", "TimeConversion",
                 "UnsupportedQuery", "EpochOutOfRange", "Internal", "Other"}

EphStatusFrom(err) ==
    IF err \in {"InvalidConfig", "InvalidQuery", "KernelLoad", "TimeConversion",
                "UnsupportedQuery", "EpochOutOfRange", "Internal"}
    THEN err
    ELSE "Internal"

\* EngineConfig::try_from(&EphEngineConfig).
EngineConfigTryFrom(c) ==
    IF c.spk_path_count = 0 \/ c.spk_path_count > EPH_MAX_SPK_PATHS
    THEN [ok |-> FALSE, err |-> "InvalidConfig"]
    ELSE IF ~c.utf8
    THEN [ok |-> FALSE, err |-> "InvalidConfig"]
    ELSE [ok |-> TRUE]

\* Query::try_from(EphQuery).
QueryTryFrom(q) ==
    IF ~q.codes THEN [ok |-> FALSE, err |-> "InvalidQuery"] ELSE [ok |-> TRUE]

\* Engine::new on a converted configuration: an engine, or an error that
\* depends on the files named.
CoreEngineNew ==
    {[ok |-> TRUE]} \cup {[ok |-> FALSE, err |-> e] : e \in {"InvalidConfig", "KernelLoad"}}

\* Engine::query on a converted query: a state, or an error that depends on
\* the kernels loaded.
CoreEngineQuery(q) ==
    {[ok |-> TRUE, state |-> StateAt(q.epoch_tdb_jd)]}
        \cup {[ok |-> FALSE, err |-> e] :
                 e \in {"UnsupportedQuery", "EpochOutOfRange", "TimeConversion", "Other"}}

\* eph_engine_new_internal: each result it can give for a configuration.
eph_engine_new_internal(c) ==
    LET core_config == EngineConfigTryFrom(c)
    IN  IF ~core_config.ok THEN {[ok |-> FALSE, status |-> EphStatusFrom(core_config.err)]}
        ELSE {IF r.ok THEN r ELSE [ok |-> FALSE, status |-> EphStatusFrom(r.err)] :
                 r \in CoreEngineNew}

\* eph_engine_query_internal: each result it can give for a query.
eph_engine_query_internal(q) ==
    LET core_query == QueryTryFrom(q)
    IN  IF ~core_query.ok THEN {[ok |-> FALSE, status |-> EphStatusFrom(core_query.err)]}
        ELSE {IF r.ok THEN r ELSE [ok |-> FALSE, status |-> EphStatusFrom(r.err)] :
                 r \in CoreEngineQuery(q)}

\* eph_query_once_internal: build an engine, query it, drop it.
eph_query_once_internal(c, q) ==
    UNION {IF e.ok THEN eph_engine_query_internal(q) ELSE {e} :
              e \in eph_engine_new_internal(c)}

\* The names of the null arguments of a call.
Nulls(args) == {a \in DOMAIN args : args[a].null}

Before == [live |-> live, engine_ptr |-> engine_ptr, out_state_mem |-> out_state_mem]

\* A call that ends in undefined behaviour (a null or dangling pointer was
\* dereferenced, or a handle was dropped twice): the heap and the caller's
\* memory may be left in any state, and any status may come back.
Undefined(fn, nulls, handle, derefs) ==
    /\ f_ub' = TRUE
    /\ live' \in SUBSET Handles
    /\ engine_ptr' \in {NullHandle} \cup Handles
    /\ out_state_mem' \in {NoState, out_state_mem}
    /\ \E status \in {"Ok", "NullPointer", "Internal"} :
          f_call' = [fn |-> fn, nulls |-> nulls, engine |-> handle, status |-> status,
                     derefs |-> derefs, writes |-> derefs, before |-> Before]

\* The null checks that open the exported functions.
new_null_check_config_only(config, out_engine) == config.null

new_null_check(config, out_engine) == config.null \/ out_engine.null

query_null_check(handle, query, out_state) ==
    handle = NullHandle \/ query.null \/ out_state.null

once_null_check(config, query, out_state) == config.null \/ query.null \/ out_state.null

\* eph_engine_new(config, out_engine).
EphEngineNew(config, out_engine) ==
    /\ UNCHANGED <<kvars, dvars, tvars, svars, gvars, evars, pvars>>
    /\ LET nulls == Nulls([config |-> config, out_engine |-> out_engine])
           call(status, derefs, writes) ==
               [fn |-> "eph_engine_new", nulls |-> nulls, engine |-> NullHandle,
                status |-> status, derefs |-> derefs, writes |-> writes, before |-> Before]
       IN  IF new_null_check(config, out_engine)
           THEN /\ f_call' = call("NullPointer", {}, {})
                /\ UNCHANGED <<live, engine_ptr, out_state_mem, f_ub>>
           ELSE IF nulls # {}
           THEN Undefined("eph_engine_new", nulls, NullHandle, {"config", "out_engine"})
           ELSE \E r \in eph_engine_new_internal(config.to[1]) :
                   IF r.ok
                   THEN \E h \in Handles \ live :
                           /\ live' = live \cup {h}
                           /\ engine_ptr' = h
                           /\ f_call' = call("Ok", {"config", "out_engine"}, {"out_engine"})
                           /\ UNCHANGED <<out_state_mem, f_ub>>
                   ELSE /\ engine_ptr' = NullHandle
                        /\ f_call' = call(r.status, {"config", "out_engine"}, {"out_engine"})
                        /\ UNCHANGED <<live, out_state_mem, f_ub>>

\* eph_engine_query(handle, query, out_state).
EphEngineQuery(handle, query, out_state) ==
    /\ UNCHANGED <<kvars, dvars, tvars, svars, gvars, evars, pvars>>
    /\ LET nulls == Nulls([query |-> query, out_state |-> out_state])
                        \cup (IF handle = NullHandle THEN {"engine"} ELSE {})
           call(status, derefs, writes) ==
               [fn |-> "eph_engine_query", nulls |-> nulls, engine |-> handle,
                status |-> status, derefs |-> derefs, writes |-> writes, before |-> Before]
       IN  IF query_null_check(handle, query, out_state)
           THEN /\ f_call' = call("NullPointer", {}, {})
                /\ UNCHANGED <<live, engine_ptr, out_state_mem, f_ub>>
           ELSE IF nulls # {} \/ handle \notin live
           THEN Undefined("eph_engine_query", nulls, handle, {"engine", "query"})
           ELSE \E r \in eph_engine_query_internal(query.to[1]) :
                   IF r.ok
                   THEN /\ out_state_mem' = r.state
                        /\ f_call' = call("Ok", {"engine", "query", "out_state"}, {"out_state"})
                        /\ UNCHANGED <<live, engine_ptr, f_ub>>
                   ELSE /\ f_call' = call(r.status, {"engine", "query"}, {})
                        /\ UNCHANGED <<live, engine_ptr, out_state_mem, f_ub>>

\* eph_engine_free(handle).
EphEngineFree(handle) ==
    /\ UNCHANGED <<kvars, dvars, tvars, svars, gvars, evars, pvars>>
    /\ LET nulls == IF handle = NullHandle THEN {"engine"} ELSE {}
           call(derefs) ==
               [fn |-> "eph_engine_free", nulls |-> nulls, engine |-> handle,
                status |-> "Ok", derefs |-> derefs, writes |-> {}, before |-> Before]
       IN  IF handle = NullHandle
           THEN /\ f_call' = call({})
                /\ UNCHANGED <<live, engine_ptr, out_state_mem, f_ub>>
           ELSE IF handle \notin live
           THEN Undefined("eph_engine_free", nulls, handle, {"engine"})
           ELSE /\ live' = live \ {handle}
                /\ f_call' = call({"engine"})
                /\ UNCHANGED <<engine_ptr, out_state_mem, f_ub>>

\* eph_query_once(config, query, out_state).
EphQueryOnce(config, query, out_state) ==
    /\ UNCHANGED <<kvars, dvars, tvars, svars, gvars, evars, pvars>>
    /\ LET nulls == Nulls([config |-> config, query |-> query, out_state |-> out_state])
           call(status, derefs, writes) ==
               [fn |-> "eph_query_once", nulls |-> nulls, engine |-> NullHandle,
                status |-> status, derefs |-> derefs, writes |-> writes, before |-> Before]
       IN  IF once_null_check(config, query, out_state)
           THEN /\ f_call' = call("NullPointer", {}, {})
                /\ UNCHANGED <<live, engine_ptr, out_state_mem, f_ub>>
           ELSE IF nulls # {}
           THEN Undefined("eph_query_once", nulls, NullHandle, {"config", "query"})
           ELSE \E r \in eph_query_once_internal(config.to[1], query.to[1]) :
                   IF r.ok
                   THEN /\ out_state_mem' = r.state
                        /\ f_call' = call("Ok", {"config", "query", "out_state"}, {"out_state"})
                        /\ UNCHANGED <<live, engine_ptr, f_ub>>
                   ELSE /\ f_call' = call(r.status, {"config", "query"}, {})
                        /\ UNCHANGED <<live, engine_ptr, out_state_mem, f_ub>>

\* The handles a caller passes: null, or what its handle variable holds.
EngineArgs == {NullHandle, engine_ptr}

FNext ==
    \/ \E config \in ConfigPtrs, out_engine \in OutEnginePtrs : EphEngineNew(config, out_engine)
    \/ \E handle \in EngineArgs, query \in QueryPtrs, out_state \in OutStatePtrs :
          EphEngineQuery(handle, query, out_state)
    \/ \E handle \in EngineArgs : EphEngineFree(handle)
    \/ \E config \in ConfigPtrs, query \in QueryPtrs, out_state \in OutStatePtrs :
          EphQueryOnce(config, query, out_state)

(***************************************************************************)
(* The engine's state cache (eph_core / dhruv_core Engine::query)          *)
(***************************************************************************)

\* Query keys (target, observer, frame, epoch), numbered; the largest capacity.
MaxKeys == 3

MaxCapacity == 1

\* A query that validation rejects (a non-finite epoch, an unknown code).
InvalidKey == 0

QueryKeys == 0..MaxKeys

Capacities == 0..MaxCapacity

\* Whether a hit refreshes an entry's place in the eviction order (LRU) or
\* not (insertion order).
Policies == {"insertion", "lru"}

\* Step 1 of query: validation.
Validate(key) == key # InvalidKey

\* Steps 3-4 of query: evaluation against the immutable kernels.  The kernels
\* cover every key but the last one.
CoreEvaluate(key) ==
    IF key < MaxKeys THEN [ok |-> TRUE, state |-> [position_km |-> key]]
    ELSE [ok |-> FALSE, err |-> "EpochOutOfRange"]

\* The cache is the list of entries in eviction order, oldest first.
CacheHas(entries, key) == \E i \in 1..Len(entries) : entries[i].key = key

CacheGet(entries, key) ==
    entries[CHOOSE i \in 1..Len(entries) : entries[i].key = key].value

Without(entries, key) == SelectSeq(entries, LAMBDA e : e.key # key)

\* Step 2 on a hit: what the lookup does to the eviction order.
Touch(entries, policy, key) ==
    IF policy = "lru"
    THEN Append(Without(entries, key), [key |-> key, value |-> CacheGet(entries, key)])
    ELSE entries

\* On overflow the oldest entries go.
EvictNewest(entries, capacity) ==
    IF Len(entries) > capacity THEN SubSeq(entries, 1, capacity) ELSE entries

Evict(entries, capacity) ==
    IF Len(entries) > capacity
    THEN SubSeq(entries, Len(entries) - capacity + 1, Len(entries))
    ELSE entries

\* What may be stored: states, never errors.
StoresAnything(r) == TRUE

Storable(r) == r.ok

\* Step 5: insert under the lock.  A key that another thread inserted in the
\* meantime is left as it is.
CacheInsert(entries, capacity, key, r) ==
    IF ~Storable(r) \/ CacheHas(entries, key) THEN entries
    ELSE Evict(Append(entries, [key |-> key, value |-> r]), capacity)

\* What the thread that finds its key already inserted returns.
DuplicateFails(r) == [ok |-> FALSE, err |-> "Internal"]

DuplicateResult(r) == r

NoQuery == [pc |-> "idle", key |-> 0, after_fail |-> FALSE, hit |-> FALSE, dup |-> FALSE,
            result |-> NoResult]

NoInsert == [overflow |-> FALSE, oldest |-> 0, gone |-> {}]

EIdle ==
    /\ cache = <<>>
    /\ e_calls = [t \in Threads |-> NoQuery]
    /\ e_failed = {}
    /\ e_insert = NoInsert

\* A thread calls query(key): validation (step 1), then the lookup under the
\* lock (step 2).
Query(t, key) ==
    /\ e_calls[t].pc \in {"idle", "done"}
    /\ IF ~Validate(key)
       THEN /\ e_calls' = [e_calls EXCEPT ![t] =
                              [NoQuery EXCEPT !.pc = "done", !.key = key,
                                              !.result = [ok |-> FALSE, err |-> "InvalidQuery"]]]
            /\ e_failed' = e_failed \cup {key}
            /\ UNCHANGED cache
       ELSE IF CacheHas(cache, key)
       THEN /\ e_calls' = [e_calls EXCEPT ![t] =
                              [NoQuery EXCEPT !.pc = "done", !.key = key, !.hit = TRUE,
                                              !.after_fail = key \in e_failed,
                                              !.result = CacheGet(cache, key)]]
            /\ cache' = Touch(cache, e_policy, key)
            /\ UNCHANGED e_failed
       ELSE /\ e_calls' = [e_calls EXCEPT ![t] =
                              [NoQuery EXCEPT !.pc = "miss", !.key = key,
                                              !.after_fail = key \in e_failed]]
            /\ UNCHANGED <<cache, e_failed>>
    /\ UNCHANGED <<e_capacity, e_policy, e_insert>>
    /\ UNCHANGED <<kvars, dvars, tvars, svars, gvars, fvars, pvars>>

\* After a miss: evaluation outside the lock (steps 3-4), which reads only the
\* immutable kernels, and then, if it gave a state, the insertion under the
\* lock (step 5).  An error is returned at once.
QueryMiss(t) ==
    /\ e_calls[t].pc = "miss"
    /\ LET key == e_calls[t].key
           r == CoreEvaluate(key)
           dup == CacheHas(cache, key)
           grown == Append(cache, [key |-> key, value |-> r])
       IN  IF Storable(r)
           THEN /\ cache' = CacheInsert(cache, e_capacity, key, r)
                /\ e_calls' = [e_calls EXCEPT ![t].pc = "done", ![t].dup = dup,
                                  ![t].result = IF dup THEN DuplicateResult(r) ELSE r]
                /\ e_insert' = IF dup THEN NoInsert
                               ELSE [overflow |-> Len(grown) > e_capacity,
                                     oldest |-> grown[1].key,
                                     gone |-> {grown[i].key : i \in 1..Len(grown)}
                                                 \ {cache'[i].key : i \in 1..Len(cache')}]
                /\ UNCHANGED e_failed
           ELSE /\ e_calls' = [e_calls EXCEPT ![t].pc = "done", ![t].result = r]
                /\ e_failed' = e_failed \cup {key}
                /\ UNCHANGED <<cache, e_insert>>
    /\ UNCHANGED <<e_capacity, e_policy>>
    /\ UNCHANGED <<kvars, dvars, tvars, svars, gvars, fvars, pvars>>

QNext ==
    \/ \E t \in Threads, key \in QueryKeys : Query(t, key)
    \/ \E t \in Threads : QueryMiss(t)

(***************************************************************************)
(* dhruv_vedic_base::dasha::query                                          *)
(***************************************************************************)

\* The longest level and the latest Julian date considered.
MaxPeriods == 3

MaxJd == 3

JdVals == 0..MaxJd

\* DashaPeriod: the half-open interval [start_jd, end_jd).
DashaPeriods == {p \in [start_jd : JdVals, end_jd : JdVals] : p.start_jd <= p.end_jd}

Levels == UNION {[1..n -> DashaPeriods] : n \in 0..MaxPeriods}

QueryJds == 0..(MaxJd + 1)

\* level[i] with Rust's indices, which count from 0.
At(level, i) == level[i + 1]

\* usize::div_ceil.
div_ceil(a, b) == (a + b - 1) \div b

\* The comparison that steers the binary search.
StartsBefore(period, query_jd) == period.start_jd < query_jd

StartsBy(period, query_jd) == period.start_jd <= query_jd

\* The while loop of find_active_period: the rightmost period of lo..hi that
\* starts by query_jd.
RECURSIVE BinarySearch(_, _, _, _)
BinarySearch(level, query_jd, lo, hi) ==
    IF lo < hi
    THEN LET mid == lo + div_ceil(hi - lo + 1, 2)
         IN  IF StartsBy(At(level, mid), query_jd)
             THEN BinarySearch(level, query_jd, mid, hi)
             ELSE BinarySearch(level, query_jd, lo, mid - 1)
    ELSE lo

find_active_period(level, query_jd) ==
    IF Len(level) = 0 THEN [kind |-> "None"]
    ELSE IF query_jd < At(level, 0).start_jd THEN [kind |-> "None"]
    ELSE LET last == Len(level) - 1
         IN  IF query_jd >= At(level, last).end_jd THEN [kind |-> "None"]
             ELSE LET lo == BinarySearch(level, query_jd, 0, last)
                  IN  IF At(level, lo).start_jd <= query_jd /\ query_jd < At(level, lo).end_jd
                      THEN [kind |-> "Some", idx |-> lo]
                      ELSE [kind |-> "None"]

PIdle ==
    /\ p_level = <<>>
    /\ p_query = 0
    /\ p_result = NoResult

\* A caller applies find_active_period to a level and a date.
FindActivePeriod(level, query_jd) ==
    /\ p_result = NoResult
    /\ p_level' = level
    /\ p_query' = query_jd
    /\ p_result' = find_active_period(level, query_jd)
    /\ UNCHANGED <<kvars, dvars, tvars, svars, gvars, fvars, evars>>

PNext ==
    /\ p_result = NoResult
    /\ \E level \in Levels, query_jd \in QueryJds : FindActivePeriod(level, query_jd)

XIdle ==
    /\ FIdle
    /\ EIdle /\ e_capacity = 0 /\ e_policy = "insertion"
    /\ PIdle

\* The kernel, file and table that the other subsystems' specifications hold fixed.
NoKernel == <<>>

NoFile == [hdr |-> [locfmt |-> "LTL-IEEE", id_ok |-> TRUE, nd |-> 2, ni |-> 6, fward |-> 0],
           recs |-> <<>>]

KInit ==
    /\ segments \in Kernels
    /\ KIdle
    /\ file = NoFile /\ overflow_checks = FALSE /\ DIdle
    /\ leap_seconds = <<>> /\ TIdle
    /\ SIdle
    /\ GIdle
    /\ XIdle

DInit ==
    /\ file \in Files
    /\ overflow_checks \in BOOLEAN
    /\ DIdle
    /\ segments = NoKernel /\ KIdle
    /\ leap_seconds = <<>> /\ TIdle
    /\ SIdle
    /\ GIdle
    /\ XIdle

TInit ==
    /\ leap_seconds \in LeapTables
    /\ TIdle
    /\ segments = NoKernel /\ KIdle
    /\ file = NoFile /\ overflow_checks = FALSE /\ DIdle
    /\ SIdle
    /\ GIdle
    /\ XIdle

SInit ==
    /\ SIdle
    /\ GIdle
    /\ segments = NoKernel /\ KIdle
    /\ file = NoFile /\ overflow_checks = FALSE /\ DIdle
    /\ leap_seconds = <<>> /\ TIdle
    /\ XIdle

GInit ==
    /\ GIdle
    /\ SIdle
    /\ segments = NoKernel /\ KIdle
    /\ file = NoFile /\ overflow_checks = FALSE /\ DIdle
    /\ leap_seconds = <<>> /\ TIdle
    /\ XIdle

\* A caller invokes the public SpkKernel::evaluate.
Evaluate(target, center, epoch) ==
    /\ k_pc = "idle"
    /\ k_op' = [name |-> "evaluate", target |-> target, center |-> center, epoch |-> epoch]
    /\ k_result' = evaluate(target, center, epoch)
    /\ k_pc' = "done"
    /\ UNCHANGED <<segments, code, k_last, k_iter, dvars, tvars, svars, gvars, xvars>>

\* resolve_to_ssb: entry, `let mut code = body_code`.
ResolveStart(body, epoch) ==
    /\ k_pc = "idle"
    /\ k_op' = [name |-> "resolve_to_ssb", body |-> body, epoch |-> epoch]
    /\ code' = body
    /\ k_pc' = "walk"
    /\ UNCHANGED <<segments, k_last, k_iter, k_result, dvars, tvars, svars, gvars, xvars>>

\* resolve_to_ssb: the loop test and one iteration of `while code != 0`.
ResolveStep ==
    /\ k_pc = "walk"
    /\ k_iter' = 1 - k_iter
    /\ IF code = 0
       THEN /\ k_result' = [kind |-> "ok"]
            /\ k_pc' = "done"
            /\ UNCHANGED <<code, k_last>>
       ELSE LET c == center_for(code)
            IN  IF ~c.some
                THEN LET bary == planet_body_to_barycenter(code)
                     IN  IF bary # code
                         THEN /\ code' = bary
                              /\ k_last' = [kind |-> "fallback", from |-> code]
                              /\ UNCHANGED <<k_pc, k_result>>
                         ELSE /\ k_result' = [kind |-> "SegmentNotFound",
                                              target |-> code, center |-> -1]
                              /\ k_pc' = "done"
                              /\ UNCHANGED <<code, k_last>>
                ELSE LET ev == evaluate(code, c.center, k_op.epoch)
                     IN  IF ev.kind # "ok"
                         THEN /\ k_result' = ev
                              /\ k_pc' = "done"
                              /\ UNCHANGED <<code, k_last>>
                         ELSE /\ code' = c.center
                              /\ k_last' = [kind |-> "eval", from |-> code, seg |-> ev.seg]
                              /\ UNCHANGED <<k_pc, k_result>>
    /\ UNCHANGED <<segments, k_op, dvars, tvars, svars, gvars, xvars>>

KNext ==
    \/ \E t \in SegTargets \cup {499}, c \in SegCenters, e \in Epochs : Evaluate(t, c, e)
    \/ \E b \in Bodies, e \in Epochs : ResolveStart(b, e)
    \/ ResolveStep

KernelSpec == KInit /\ [][KNext]_vars

\* The loop of resolve_to_ssb runs to completion once entered: the call is
\* synchronous, so its next iteration is always eventually taken.
FairKernelSpec == KernelSpec /\ WF_vars(ResolveStep)

DNext == FromBytesStart \/ WalkStep

DafSpec == DInit /\ [][DNext]_vars

\* read_summaries is a synchronous loop: once entered, its next iteration is
\* always eventually taken.
FairDafSpec == DafSpec /\ WF_vars(WalkStep)

TNext ==
    \/ \E u \in Instants : UtcToTai(u)
    \/ \E a \in Instants : TdbToUtc(a)

TimeSpec == TInit /\ [][TNext]_vars

SNext ==
    \/ \E cfg \in FzcCfgs, r \in EvalOutcomes : FzcStart(cfg, r)
    \/ FzcScanEnd
    \/ \E r \in EvalOutcomes : FzcScanStep(r)
    \/ FzcBisectEnd
    \/ \E r \in EvalOutcomes : FzcBisectStep(r)

SearchSpec == SInit /\ [][SNext]_vars

CNext == \E a \in CrossingArgs, b \in CrossingArgs : IsGenuineCrossing(a, b)

CrossingSpec == SInit /\ [][CNext]_vars

\* The steps inside a call of find_zero_crossing.
FzcRun ==
    \/ FzcScanEnd
    \/ \E r \in EvalOutcomes : FzcScanStep(r)
    \/ FzcBisectEnd
    \/ \E r \in EvalOutcomes : FzcBisectStep(r)

\* find_zero_crossing is a synchronous call: once entered, its next step is
\* always eventually taken (the searched function returns).
FairSearchSpec == SearchSpec /\ WF_vars(FzcRun)

ENext ==
    \/ \E cfg \in ConjCfgs, r \in EvalOutcomes : NextConjunction(cfg, r)
    \/ \E cfg \in ConjCfgs, r \in EvalOutcomes : PrevConjunction(cfg, r)
    \/ \E r \in EvalOutcomes : NextPurnima(r)
    \/ \E i \in BOOLEAN, r \in EvalOutcomes : RsNextPurnima(i, r)
    \/ \E r \in EvalOutcomes : MasaForDate(r)
    \/ FindEventScanEnd
    \/ \E r \in EvalOutcomes : FindEventScanStep(r)
    \/ BisectRefinementEnd
    \/ \E r \in EvalOutcomes : BisectRefinementStep(r)
    \/ ConjunctionReturn
    \/ NextPurnimaReturn
    \/ RsNextPurnimaReturn
    \/ MasaPrevReturn
    \/ \E r \in EvalOutcomes : MasaNextReturn(r)

EventSpec == SInit /\ [][ENext]_vars

\* The entry points that take a caller's configuration: the conjunction
\* searches for one event and over a range, and the sankranti searches.
RNext ==
    \/ \E cfg \in ConjCfgs, r \in EvalOutcomes : NextConjunction(cfg, r)
    \/ \E cfg \in ConjCfgs, r \in EvalOutcomes : PrevConjunction(cfg, r)
    \/ FindEventScanEnd
    \/ \E r \in EvalOutcomes : FindEventScanStep(r)
    \/ BisectRefinementEnd
    \/ \E r \in EvalOutcomes : BisectRefinementStep(r)
    \/ ConjunctionReturn
    \/ \E jd_end \in JdEnds, cfg \in ConjCfgs, r \in EvalOutcomes :
          SearchConjunctions(jd_end, cfg, r)
    \/ \E r \in EvalOutcomes : SearchConjunctionsStep(r)
    \/ RangeBisectEnd
    \/ \E r \in EvalOutcomes : RangeBisectStep(r)
    \/ \E cfg \in SankCfgs, r \in EvalOutcomes : NextSpecificSankranti(cfg, r)
    \/ \E cfg \in SankCfgs, r \in EvalOutcomes : PrevSpecificSankranti(cfg, r)
    \/ FzcScanEnd
    \/ \E r \in EvalOutcomes : FzcScanStep(r)
    \/ FzcBisectEnd
    \/ \E r \in EvalOutcomes : FzcBisectStep(r)
    \/ \E b \in EvalOutcomes : SpecificSankrantiReturn(b)

RangeSpec == SInit /\ [][RNext]_vars

\* search_sankrantis over a range, with the find_zero_crossing calls inside it.
YNext ==
    \/ \E jd_end \in SankJdEnds, config \in SankRangeCfgs, lon \in LonOutcomes,
          r \in SankEvalOutcomes :
          SearchSankrantis(jd_end, config, lon, r)
    \/ FzcScanEnd
    \/ \E r \in SankEvalOutcomes : FzcScanStep(r)
    \/ FzcBisectEnd
    \/ \E r \in SankEvalOutcomes : FzcBisectStep(r)
    \/ \E b \in SankEvalOutcomes, lon \in LonOutcomes, r \in SankEvalOutcomes,
          e1 \in Roundings, e2 \in Roundings :
          SearchSankrantisStep(b, lon, r, e1, e2)

SankrantiSpec == SInit /\ [][YNext]_vars

\* The steps inside a call of search_sankrantis.
SankrantiRun ==
    \/ FzcScanEnd
    \/ \E r \in SankEvalOutcomes : FzcScanStep(r)
    \/ FzcBisectEnd
    \/ \E r \in SankEvalOutcomes : FzcBisectStep(r)
    \/ \E b \in SankEvalOutcomes, lon \in LonOutcomes, r \in SankEvalOutcomes,
          e1 \in Roundings, e2 \in Roundings :
          SearchSankrantisStep(b, lon, r, e1, e2)

\* search_sankrantis is a synchronous call: once entered, its next step is
\* always eventually taken.
FairSankrantiSpec == SankrantiSpec /\ WF_vars(SankrantiRun)

\* compute_actual_separation applied to the longitudes of an event.
ANext == \E lon1 \in LonVals, lon2 \in LonVals, target \in TargetVals :
            ComputeActualSeparation(lon1, lon2, target)

SeparationSpec == SInit /\ [][ANext]_vars

\* evaluate_type2 applied to a descriptor, an epoch and a file length.
T2Next ==
    \E desc \in Type2Descriptors, e \in Type2Epochs, len \in DataLens, z \in BOOLEAN :
        EvaluateType2(desc, e, len, z)

Type2Spec == SInit /\ [][T2Next]_vars

\* Threads calling dhruv_rs::global::init.
GlobalSpec == GInit /\ [][GNext]_vars

\* Threads querying one engine, whose capacity and eviction order are fixed at
\* construction.
QInit ==
    /\ e_capacity \in Capacities
    /\ e_policy \in Policies
    /\ EIdle
    /\ FIdle
    /\ PIdle
    /\ SIdle
    /\ GIdle
    /\ segments = NoKernel /\ KIdle
    /\ file = NoFile /\ overflow_checks = FALSE /\ DIdle
    /\ leap_seconds = <<>> /\ TIdle

CacheSpec == QInit /\ [][QNext]_vars

\* find_active_period applied to a level and a date.
DashaSpec == SInit /\ [][PNext]_vars

\* A C caller of the exported functions, with one handle variable and one
\* output buffer.
FfiSpec == SInit /\ [][FNext]_vars

(***************************************************************************)
(* Properties                                                              *)
(***************************************************************************)

\* C1: every call of resolve_to_ssb, on every kernel and body code, leaves
\* the chain walk after finitely many steps (reaching code 0 or an error).
C1_ResolveTerminates == (k_pc = "walk") ~> (k_pc = "done")

\* C2: every DAF summary walk ends after finitely many records, with NEXT = 0
\* or with BadSummaryRecord.
C2_WalkTerminates == (d_pc = "walk") ~> (d_pc = "done")

\* The indices of the segments that match (target, center) and contain epoch.
Matching(target, center, epoch) ==
    {i \in 1..Len(segments) :
        /\ segments[i].target = target
        /\ segments[i].center = center
        /\ segments[i].start_epoch <= epoch
        /\ epoch <= segments[i].end_epoch}

\* C3: evaluate uses the first segment in list order that matches target and
\* centre and whose closed range contains the epoch, whatever later segments
\* match too; with no such segment it reports EpochOutOfRange.  The same holds
\* for each evaluation made by resolve_to_ssb.
C3_FirstMatchSelected ==
    /\ (k_op.name = "evaluate" /\ k_pc = "done") =>
          LET M == Matching(k_op.target, k_op.center, k_op.epoch)
          IN  IF M = {}
              THEN k_result.kind = "EpochOutOfRange"
              ELSE /\ k_result.kind \in {"ok", "UnsupportedDataType"}
                   /\ k_result.seg \in M
                   /\ \A j \in M : k_result.seg <= j
    /\ (k_last.kind = "eval") =>
          LET M == Matching(k_last.from, segments[k_last.seg].center, k_op.epoch)
          IN  k_last.seg \in M /\ \A j \in M : k_last.seg <= j

\* C3 witness: evaluate returned, two different overlapping segments match
\* the query, and the first one was used.
C3_Witness ==
    /\ k_op.name = "evaluate" /\ k_pc = "done"
    /\ Len(segments) = 2 /\ segments[1] # segments[2]
    /\ Matching(k_op.target, k_op.center, k_op.epoch) = {1, 2}
    /\ k_result.kind = "ok" /\ k_result.seg = 1

IsPlanetCode(c) == c >= 100 /\ c < 1000 /\ c % 100 = 99

\* C4: in chain resolution the planet-to-barycentre fallback is applied to a
\* code without a segment exactly when 100 <= code < 1000 and code % 100 = 99.
C4_FallbackOnlyForPlanetCodes ==
    /\ (k_last.kind = "fallback") => IsPlanetCode(k_last.from)
    /\ (k_pc = "done" /\ k_result.kind = "SegmentNotFound") =>
          ~IsPlanetCode(k_result.target)

\* C5: a lookup fails with SegmentNotFound when no segment exists for the
\* (target, centre) pair, and with EpochOutOfRange only when a segment for the
\* pair exists but none contains the epoch.
C5_LookupErrorKinds ==
    (k_pc = "done") =>
        /\ (k_result.kind = "EpochOutOfRange") =>
              \E i \in 1..Len(segments) :
                  /\ segments[i].target = k_result.target
                  /\ segments[i].center = k_result.center
        /\ (/\ k_op.name = "evaluate"
            /\ ~\E i \in 1..Len(segments) :
                  /\ segments[i].target = k_op.target
                  /\ segments[i].center = k_op.center)
              => k_result.kind = "SegmentNotFound"

\* C6: converting a UTC epoch before the first tabulated leap-second entry
\* fails with Pre1972Utc.
C6_Pre1972Fails ==
    (/\ t_op.name = "utc_to_tai"
     /\ Len(leap_seconds) > 0
     /\ t_op.arg < leap_seconds[1][2])
        => t_result.kind = "Pre1972Utc"

\* delta_at as a function of UTC, read off the table.
DeltaAt(u) ==
    LET S == {i \in 1..Len(leap_seconds) : leap_seconds[i][2] <= u}
    IN  IF S = {} THEN 0 ELSE leap_seconds[CHOOSE i \in S : \A j \in S : j <= i][1]

\* delta_at rises by one second at every table entry, the first included.
OneSecondJumps ==
    /\ Len(leap_seconds) > 0 => leap_seconds[1][1] = 1
    /\ \A i \in 1..(Len(leap_seconds) - 1) :
          leap_seconds[i + 1][1] = leap_seconds[i][1] + 1

\* Consecutive entries differ by one second (the first entry may be larger).
OneSecondSteps ==
    \A i \in 1..(Len(leap_seconds) - 1) :
        leap_seconds[i + 1][1] = leap_seconds[i][1] + 1

\* Consecutive anchors are at least the largest delta_at apart.
WellSpaced ==
    \A i \in 1..(Len(leap_seconds) - 1) :
        leap_seconds[i + 1][2] - leap_seconds[i][2] >= leap_seconds[Len(leap_seconds)][1]

\* Some UTC instant has this TAI instant as its image.
HasUtc(tai) == \E u \in (tai - MaxDelta)..tai : u + DeltaAt(u) = tai

\* C7 as stated: for every TAI instant and every table with one-second jumps,
\* the utc returned by tdb_to_utc satisfies utc + delta_at(utc) = tai.
C7_ThreeIterationsSuffice ==
    (t_op.name = "tdb_to_utc" /\ OneSecondJumps /\ WellSpaced)
        => t_result.val + DeltaAt(t_result.val) = t_op.arg

\* C7 amended: the same, for TAI instants that are the image of a UTC instant
\* (not inside an inserted leap second) and tables whose consecutive anchors
\* are at least the largest delta_at apart.
C7_ThreeIterationsSufficeOutsideLeap ==
    (t_op.name = "tdb_to_utc" /\ OneSecondSteps /\ WellSpaced /\ HasUtc(t_op.arg))
        => t_result.val + DeltaAt(t_result.val) = t_op.arg

\* C7 witness: a two-entry table, a TAI instant with a UTC image for which the
\* first iteration alone has not yet reached the fixed point.
C7_Witness ==
    /\ t_op.name = "tdb_to_utc" /\ OneSecondSteps /\ WellSpaced /\ HasUtc(t_op.arg)
    /\ Len(leap_seconds) = 2
    /\ t_op.arg - DeltaAt(t_op.arg) # t_result.val
    /\ t_result.val + DeltaAt(t_result.val) = t_op.arg

\* C8: a search primitive that uses up its iteration bound without its
\* bracket falling below the convergence threshold reports NoConvergence.
C8_ExhaustedBisectionReportsNoConvergence ==
    (/\ s_entry = "find_zero_crossing" /\ s_pc = "done"
     /\ s_result.kind # "None"
     /\ ~(s_result.kind = "Err" /\ s_result.err = "Engine")
     /\ s_cfg.max_iterations >= 1
     /\ s_it = s_cfg.max_iterations
     /\ Abs(t_b - t_a) >= s_cfg.convergence_days)
        => (s_result.kind = "Err" /\ s_result.err = "NoConvergence")

\* C9: when the coarse scan of a search is exhausted without a genuine
\* crossing, the caller of the entry point receives None and not an error.
C9_ScanExhaustedGivesNone ==
    (s_pc = "done" /\ s_entry \in EventEntries /\ s_prim.kind = "None")
        => s_result.kind = "None"

\* A genuine crossing, as the claim states it: opposite signs, and not the
\* jump of the wrapped difference across +-180 degrees.
GenuinePair(fa, fb) == fa * fb < 0 /\ Abs(fa - fb) < 270

\* C10: a failure-free find_zero_crossing samples the function at
\* jd_start, jd_start + step, ...; it returns None exactly when all
\* max_steps + 1 samples were taken and no consecutive pair of them is a
\* genuine crossing, and otherwise returns a time (inside the first genuine
\* pair, which is the last pair sampled).
C10_NoneIffNoGenuinePair ==
    (s_entry = "find_zero_crossing" /\ s_pc = "done" /\ s_result.kind # "Err") =>
        LET n == Len(s_samples)
            Genuine == {k \in 1..(n - 1) : GenuinePair(s_samples[k].v, s_samples[k + 1].v)}
        IN  /\ \A k \in 1..n : s_samples[k].t = s_cfg.jd_start + (k - 1) * s_cfg.step
            /\ n - 1 <= s_cfg.max_steps
            /\ IF Genuine = {}
               THEN s_result.kind = "None" /\ n - 1 = s_cfg.max_steps
               ELSE /\ s_result.kind = "Some"
                    /\ Genuine = {n - 1}
                    /\ \/ s_samples[n - 1].t <= s_result.t /\ s_result.t <= s_samples[n].t
                       \/ s_samples[n].t <= s_result.t /\ s_result.t <= s_samples[n - 1].t

\* C10 witness: a scan of two pairs ended with None although one pair changes
\* sign, because that sign change is the wrap-around jump.
C10_Witness ==
    /\ s_entry = "find_zero_crossing" /\ s_pc = "done" /\ s_result.kind = "None"
    /\ s_cfg.max_steps = 2 /\ Len(s_samples) = 3
    /\ \E k \in 1..2 : s_samples[k].v * s_samples[k + 1].v < 0

\* C11 as stated: a call of find_zero_crossing with positive max_steps and
\* max_iterations makes at most max_steps * max_iterations evaluations of the
\* searched function.
C11_ProductBound ==
    (/\ s_entry = "find_zero_crossing"
     /\ s_cfg.max_steps >= 1 /\ s_cfg.max_iterations >= 1)
        => s_evals <= s_cfg.max_steps * s_cfg.max_iterations

\* C11 amended: every call of find_zero_crossing ends, after at most
\* 1 + max_steps + max_iterations evaluations of the searched function (one
\* at the start time, one per scan step, one per bisection pass).
C11_SumBound ==
    /\ [](s_entry = "find_zero_crossing" =>
             s_evals <= 1 + s_cfg.max_steps + s_cfg.max_iterations)
    /\ ((s_pc \in {"scan", "bisect"}) ~> (s_pc = "done"))

\* C11 witness: a finished call that made exactly 1 + 2 + 2 evaluations: the
\* crossing lay in the last scan interval and the bisection did not converge.
C11_Witness ==
    /\ s_entry = "find_zero_crossing" /\ s_pc = "done"
    /\ s_cfg.max_steps = 2 /\ s_cfg.max_iterations = 2
    /\ s_evals = 5 /\ s_result.kind = "Some"

\* C12: is_genuine_crossing(f_a, f_b) is true exactly when the two values
\* have strictly opposite signs and lie less than 270 apart; it is false for
\* (170, -170) and for (-170, 170).
C12_GenuineIffSignChangeWithin270 ==
    (s_entry = "is_genuine_crossing" /\ s_pc = "done") =>
        LET a == s_cfg.f_a
            b == s_cfg.f_b
            opposite == (a > 0 /\ b < 0) \/ (a < 0 /\ b > 0)
            near == a - b < 270 /\ b - a < 270
        IN  /\ s_result.val = (opposite /\ near)
            /\ (a = 170 /\ b = 0 - 170) => s_result.val = FALSE
            /\ (a = 0 - 170 /\ b = 170) => s_result.val = FALSE

\* C12 witness: the wrap-around pair (170, -170) was tested and rejected.
C12_Witness ==
    /\ s_entry = "is_genuine_crossing" /\ s_pc = "done"
    /\ s_cfg.f_a = 170 /\ s_cfg.f_b = 0 - 170
    /\ s_result.val = FALSE


\* C20: a call of init made after the global engine was installed returns
\* AlreadyInitialized whatever its configuration, and the stored engine is
\* the one built by the call that returned Ok.
C20_LaterInitAlreadyInitialized ==
    \A t \in Threads :
        init_calls[t].pc = "done" =>
            /\ init_calls[t].after =>
                  init_calls[t].result = [kind |-> "Err", err |-> "AlreadyInitialized"]
            /\ init_calls[t].result.kind = "Ok" => ENGINE = [config |-> init_calls[t].config]

\* Once installed, the engine is never replaced.
StoredEngineStays == [][is_initialized => ENGINE' = ENGINE]_vars


\* The entry points that take a caller's configuration.
ConfiguredEntries ==
    {"next_conjunction", "prev_conjunction", "search_conjunctions",
     "next_specific_sankranti", "prev_specific_sankranti"}

C14_FailureStopsSearch ==
    s_entry = "find_zero_crossing" =>
        /\ s_evals = Len(s_samples) + s_it
        /\ \A k \in 1..Len(s_samples) :
              ~s_samples[k].ok =>
                  /\ k = Len(s_samples)
                  /\ s_pc = "done"
                  /\ s_result = [kind |-> "Err", err |-> "Engine", cause |-> s_samples[k].err]

\* C14 witness: the evaluation that failed was a bisection midpoint, after two
\* scan samples and one successful bisection step.
C14_Witness ==
    /\ s_entry = "find_zero_crossing" /\ s_pc = "done"
    /\ Len(s_samples) = 3 /\ ~s_samples[3].ok /\ s_it = 1
    /\ s_result.kind = "Err" /\ s_result.cause = "SegmentNotFound"


\* The state of a next_conjunction / prev_conjunction call: the scan is at
\* t_prev = jd_start + s_k * step with the step signed by the direction, it
\* has at most ceil(800 / step_size_days) intervals, bisection works inside
\* the interval the scan stopped at, and a time returned to the caller lies
\* on the searched side of jd_start, within the scan window.
C15_ScanState ==
    s_entry \in {"next_conjunction", "prev_conjunction"} =>
        LET size == s_cfg.config.step_size_days
            dir == IF s_entry = "next_conjunction" THEN 1 ELSE 0 - 1
        IN  /\ s_pc \in {"scan", "bisect"} =>
                  /\ s_cfg.step = dir * size
                  /\ s_cfg.max_steps = CeilDiv(MAX_SCAN_DAYS * DayUnits, size)
                  /\ s_k <= s_cfg.max_steps
                  /\ t_prev = s_cfg.jd_start + s_k * s_cfg.step
            /\ s_pc = "bisect" =>
                  /\ s_k < s_cfg.max_steps
                  /\ Min(t_prev, t_prev + s_cfg.step) <= t_a
                  /\ t_a <= t_b
                  /\ t_b <= Min(t_prev, t_prev + s_cfg.step) + size
            /\ (s_pc = "done" /\ s_result.kind = "Some") =>
                  /\ dir * (s_result.t - s_cfg.jd_start) >= 0
                  /\ dir * (s_result.t - s_cfg.jd_start)
                        <= CeilDiv(MAX_SCAN_DAYS * DayUnits, size) * size

\* The steps of a next_conjunction / prev_conjunction call: the scan passes
\* over an interval only if its endpoint values are not a genuine crossing,
\* it stops at an interval only if they are, bisection then starts from the
\* whole interval, and the time returned lies in the bracket reached.
C15_ScanStep ==
    s_entry \in {"next_conjunction", "prev_conjunction"} =>
        /\ (s_pc = "scan" /\ s_pc' = "scan") =>
              /\ ~GenuinePair(f_prev, f_prev')
              /\ s_k' = s_k + 1
        /\ (s_pc = "scan" /\ s_pc' = "bisect") =>
              /\ GenuinePair(f_a', f_b')
              /\ f_prev \in {f_a', f_b'}
              /\ t_a' = Min(t_prev, t_prev + s_cfg.step)
              /\ t_b' = t_a' + s_cfg.config.step_size_days
              /\ s_k' = s_k
        /\ (s_pc = "bisect" /\ s_pc' = "ret" /\ s_prim'.kind = "Some") =>
              (t_a <= s_prim'.t /\ s_prim'.t <= t_b)
        /\ (s_pc = "ret" /\ s_pc' = "done") => s_result' = s_prim

\* C15: next_conjunction (prev_conjunction) scans at most ceil(800 / step)
\* intervals forward (backward) from the start and returns an event inside
\* the first interval, in scan order, whose endpoint values are a genuine
\* crossing; the time returned is never before (after) the start.
C15_FirstGenuineInterval == [](C15_ScanState) /\ [][C15_ScanStep]_vars

\* C15 witness: prev_conjunction passed over the interval next to the start
\* and returned an event from the second interval behind it.
C15_Witness ==
    /\ s_entry = "prev_conjunction" /\ s_pc = "done" /\ s_result.kind = "Some"
    /\ s_result.t < s_cfg.jd_start - s_cfg.config.step_size_days


\* C16: every event search_conjunctions(jd_start, jd_end) has collected, and
\* every event of the list it returns, has jd_start <= jd_tdb <= jd_end.
C16_EventsInsideRange ==
    s_entry = "search_conjunctions" =>
        /\ \A k \in 1..Len(events) :
              s_cfg.jd_start <= events[k] /\ events[k] <= s_cfg.jd_end
        /\ (s_pc = "done" /\ s_result.kind = "Ok") => s_result.events = events

\* C16 witness: a search returned two events, the later one refined from
\* the last interval, which the end of the range cut short.
C16_Witness ==
    /\ s_entry = "search_conjunctions" /\ s_pc = "done" /\ s_result.kind = "Ok"
    /\ Len(s_result.events) = 2
    /\ s_result.events[2] > 2 * WideStep


\* C17: for a target separation in [0, 360), the actual_separation_deg of an
\* event lies in [0, 360).
C17_ActualSeparationInRange ==
    (s_entry = "compute_actual_separation" /\ s_pc = "done"
     /\ 0 <= s_cfg.target_deg /\ s_cfg.target_deg < 360)
        => (0 <= s_result.val /\ s_result.val < 360)


\* C18: the index of the record evaluate_type2 reads is
\* floor((t - init) / intlen) clamped into [0, n - 1]: one of the segment's
\* n records.
C18_RecordIndexInSegment ==
    (k_op.name = "evaluate_type2" /\ k_result.kind = "Ok") =>
        /\ 0 <= k_result.record_index
        /\ k_result.record_index <= F64AsUsize(k_op.desc.n) - 1


\* C19: loading a kernel from any byte buffer ends in success or in one of
\* FileTooSmall, BadEndianness, BadFileId, BadSummaryRecord, never in an
\* abort.
C19_LoadSucceedsOrReportsError ==
    d_pc = "done" =>
        d_result.kind \in {"ok", "FileTooSmall", "BadEndianness", "BadFileId", "BadSummaryRecord"}


\* C21: under any interleaving of init and engine() calls, at most one init
\* has returned Ok, the cell holds the engine of that init, an engine() call
\* that succeeded returned that engine, and an engine() call made before
\* any init succeeded returned NotInitialized.
C21_SingleInitialisation ==
    /\ Len(installed) <= 1
    /\ ENGINE = IF installed = <<>> THEN Empty ELSE installed[1]
    /\ \A t \in Threads :
          engine_calls[t].result # NoResult =>
              /\ engine_calls[t].result.kind = "Ok" =>
                    installed = <<engine_calls[t].result.eng>>
              /\ engine_calls[t].seen = <<>> =>
                    engine_calls[t].result = [kind |-> "Err", err |-> "NotInitialized"]

\* C21 witness: both threads raced through Engine::new with different
\* configurations, one init returned Ok and the other AlreadyInitialized, and
\* one thread saw NotInitialized from engine() while the other got the engine.
C21_Witness ==
    /\ init_calls[1].pc = "done" /\ init_calls[2].pc = "done"
    /\ ~init_calls[1].after /\ ~init_calls[2].after
    /\ init_calls[1].config # init_calls[2].config
    /\ init_calls[1].result.kind = "Ok"
    /\ init_calls[2].result = [kind |-> "Err", err |-> "AlreadyInitialized"]
    /\ engine_calls[1].result.kind = "Err"
    /\ engine_calls[2].result.kind = "Ok"

\* C22: whenever eph_engine_new, eph_engine_query or eph_query_once is called
\* with a null required pointer, it returns NullPointer, has dereferenced no
\* pointer and written through none, and the heap and the caller's memory are
\* as they were before the call.
C22_NullArgumentsRejected ==
    (f_call.fn \in {"eph_engine_new", "eph_engine_query", "eph_query_once"}
        /\ f_call.nulls # {}) =>
        /\ f_call.status = "NullPointer"
        /\ f_call.derefs = {}
        /\ f_call.writes = {}
        /\ Before = f_call.before

\* C22 witness: eph_engine_query was called on a live engine and a buffer
\* that holds an earlier state, with a null query pointer only.
C22_Witness ==
    /\ f_call.fn = "eph_engine_query"
    /\ f_call.nulls = {"query"}
    /\ f_call.engine \in live
    /\ out_state_mem.set
    /\ f_call.status = "NullPointer"
    /\ ~f_ub

\* C29: after eph_engine_new was given an out_engine, the caller's
\* handle is a live engine when the status is Ok and null when it is any other
\* status; eph_engine_free(null) returns Ok and changes nothing.
C29_HandleLiveOrNull ==
    /\ (f_call.fn = "eph_engine_new" /\ "out_engine" \notin f_call.nulls) =>
          IF f_call.status = "Ok" THEN engine_ptr \in live ELSE engine_ptr = NullHandle
    /\ (f_call.fn = "eph_engine_free" /\ f_call.engine = NullHandle) =>
          f_call.status = "Ok" /\ Before = f_call.before

\* C23: the cache holds no entry for a key whose query has failed, and no
\* error value; a query made after a query for the same key has failed is not
\* answered from the cache but evaluated again.
C23_FailuresNotCached ==
    /\ \A i \in 1..Len(cache) : cache[i].value.ok /\ cache[i].key \notin e_failed
    /\ \A t \in Threads :
          (e_calls[t].pc = "done" /\ e_calls[t].after_fail) =>
              ~e_calls[t].hit /\ e_calls[t].result = CoreEvaluate(e_calls[t].key)

\* C23 witness: with other keys cached, a query for a key that had failed
\* before has been evaluated again and has failed again.
C23_Witness ==
    \E t \in Threads :
        /\ e_calls[t].pc = "done"
        /\ e_calls[t].after_fail
        /\ ~e_calls[t].result.ok
        /\ ~e_calls[t].hit
        /\ cache # <<>>

SerialResult(key) ==
    IF Validate(key) THEN CoreEvaluate(key) ELSE [ok |-> FALSE, err |-> "InvalidQuery"]

\* C25: every query that has returned, in any interleaving of the threads,
\* has returned what it returns in a serial execution.
C25_ConcurrentEqualsSerial ==
    \A t \in Threads : e_calls[t].pc = "done" => e_calls[t].result = SerialResult(e_calls[t].key)

\* C25 witness: two threads missed on the same key and both evaluated it; one
\* inserted, the other found the key already there, and both returned a state.
C25_Witness ==
    \E t, u \in Threads :
        /\ t # u
        /\ e_calls[t].pc = "done" /\ e_calls[u].pc = "done"
        /\ e_calls[t].key = e_calls[u].key
        /\ ~e_calls[t].hit /\ ~e_calls[u].hit
        /\ e_calls[t].dup /\ ~e_calls[u].dup
        /\ e_calls[t].result.ok /\ e_calls[u].result.ok
        /\ e_capacity >= 1

\* The periods of a level are sorted and contiguous: each ends where the
\* next one starts.
Contiguous(level) ==
    \A i \in 1..(Len(level) - 1) : level[i].end_jd = level[i + 1].start_jd

\* C26: on a level of sorted contiguous half-open periods, find_active_period
\* returns Some(i) exactly when start_i <= query_jd < end_i, and so None when
\* the level is empty or the date lies in no period.
C26_ActivePeriodFound ==
    (p_result # NoResult /\ Contiguous(p_level)) =>
        /\ \A i \in 0..(Len(p_level) - 1) :
              (p_result = [kind |-> "Some", idx |-> i])
                  <=> (At(p_level, i).start_jd <= p_query /\ p_query < At(p_level, i).end_jd)
        /\ p_result.kind \in {"Some", "None"}
        /\ p_level = <<>> => p_result.kind = "None"

\* C26 witness: the date is the shared boundary of the first two of three
\* contiguous periods, and the second one is returned.
C26_Witness ==
    /\ Len(p_level) = 3
    /\ Contiguous(p_level)
    /\ p_query = p_level[1].end_jd
    /\ p_level[1].start_jd < p_level[1].end_jd
    /\ p_level[2].start_jd < p_level[2].end_jd
    /\ p_result = [kind |-> "Some", idx |-> 1]

\* C27: when a finished call of find_zero_crossing that met no failure has
\* scanned three consecutive samples with the value 0 at the middle one and
\* opposite signs at its neighbours, it has returned a crossing, and that
\* crossing lies less than one step from the middle sample.
C27_RootOnSampleReturned ==
    (s_entry = "find_zero_crossing" /\ s_pc = "done" /\ s_result.kind # "Err") =>
        \A k \in 2..(Len(s_samples) - 1) :
            (s_samples[k].v = 0 /\ s_samples[k - 1].v * s_samples[k + 1].v < 0) =>
                /\ s_result.kind = "Some"
                /\ s_result.t - s_samples[k].t < StepUnits
                /\ s_samples[k].t - s_result.t < StepUnits

\* The bodies from which a chain of at most n segments, each covering the
\* epoch, leads to the solar system barycentre (code 0).
RECURSIVE CoveredChain(_, _)
CoveredChain(n, epoch) ==
    IF n = 0 THEN {0}
    ELSE LET near == CoveredChain(n - 1, epoch)
         IN  near \cup {segments[i].target : i \in
                           {j \in 1..Len(segments) :
                               /\ segments[j].center \in near
                               /\ epoch >= segments[j].start_epoch
                               /\ epoch <= segments[j].end_epoch}}

\* C28: on a kernel whose segments are all of the supported type, a finished
\* call of resolve_to_ssb has succeeded whenever the kernel holds a chain of
\* segments from the body to code 0 that all cover the epoch.
C28_CoveredChainResolves ==
    (/\ k_pc = "done" /\ k_op.name = "resolve_to_ssb"
     /\ \A i \in 1..Len(segments) : segments[i].data_type = 2
     /\ k_op.body \in CoveredChain(Len(segments), k_op.epoch))
        => k_result.kind = "ok"


\* The events pushed so far are strictly increasing in time.
StrictlyIncreasing(evs) ==
    \A i \in 1..Len(evs), j \in 1..Len(evs) : i < j => evs[i].jd_tdb < evs[j].jd_tdb

====
